---- MODULE Spec2Model ----
(***************************************************************************)
(* Pigment Finance: the SavingsVault ledger (src/src/SavingsVault.sol),     *)
(* the VVSYieldStrategy pool-share strategy                                *)
(* (src/src/VVSYieldStrategy.sol) and the backend's DecisionEngine         *)
(* (src/backend/src/agent/decision-engine.ts) as state machines.           *)
(*                                                                         *)
(* A transaction is one atomic step: a revert rolls back every write, so a *)
(* failing call is a step that changes nothing.  The outcome of a call is  *)
(* given by the ...Result operators: "OK" or the name of the error.        *)
(***************************************************************************)
EXTENDS Integers, FiniteSets, Sequences, TLC

\* ------------------------------------------------------------------ constants
\* Amounts are counted in units of 100 base units of the 6-decimal token
\* (0.0001 USDC), so that every sum stays within the checker's integers; the
\* ledger only adds, subtracts and compares amounts.
MIN_DEPOSIT == 1000000 \div 100

MAX_SAVE_AMOUNT == 10000 * MIN_DEPOSIT

MIN_SAVE_INTERVAL == 86400

\* ------------------------------------------------------------------ bounds
\* Number of successful fund movements (deposit, withdraw, autoSave) explored.
MaxOps == 3

\* Number of share units the strategy mints over a run.
MaxMinted == 6

\* ------------------------------------------------------------------ identities
ZeroAddress == "0x0"

Owner == "owner"

Users == {"alice", "bob"}

Executors == {"exec", "alice"}

\* the address bound to the strategy as its vault
Vault == "vault"

\* the address of the deployed strategy
Strategy == "strategy"

StrategyCallers == {Vault, Owner, "alice"}

\* block.timestamp values the chain takes, in seconds
Times == {1, MIN_SAVE_INTERVAL, MIN_SAVE_INTERVAL + 3600,
          2 * MIN_SAVE_INTERVAL - 1, 2 * MIN_SAVE_INTERVAL}

GoalInputs == {0, 100 * MIN_DEPOSIT}

BufferInputs == {50 * MIN_DEPOSIT}

TrustModes == {"MANUAL", "AUTO"}

DepositAmounts == {0, MIN_DEPOSIT - 1, MIN_DEPOSIT}

SaveAmounts == {0, MIN_DEPOSIT - 1, MAX_SAVE_AMOUNT, MAX_SAVE_AMOUNT + 1}

VARIABLES
    now,                    \* block.timestamp
    paused,                 \* Pausable._paused of the vault
    x402Executor,           \* SavingsVault.x402Executor
    accounts,               \* SavingsVault.accounts
    totalValueLocked,       \* SavingsVault.totalValueLocked
    ops,                    \* successful fund movements so far
    saves,                  \* per user, the block times of its successful autoSaves
    yieldStrategy,          \* SavingsVault.yieldStrategy
    frame,                  \* the vault call suspended in a token transfer, if any
    s_savingsVault,         \* VVSYieldStrategy.s_savingsVault
    s_userLiquidityTokens,  \* VVSYieldStrategy.s_userLiquidityTokens
    s_totalLiquidityTokens, \* VVSYieldStrategy.s_totalLiquidityTokens
    s_slippageTolerance,    \* VVSYieldStrategy.s_slippageTolerance
    minted,                 \* share units minted by the strategy so far
    returned,               \* what the strategy's last successful call returned
    state,                  \* the UserFinancialState handed to DecisionEngine.decide
    context,                \* DecisionEngine.context
    decision                \* what decide made of state under context, once called

ledgerVars ==
    <<x402Executor, accounts, totalValueLocked, ops, saves, yieldStrategy, frame>>

strategyVars ==
    <<s_savingsVault, s_userLiquidityTokens, s_totalLiquidityTokens,
      s_slippageTolerance, minted, returned>>

engineVars == <<state, context, decision>>

vars == <<now, paused, ledgerVars, strategyVars, engineVars>>

\* ------------------------------------------------------------------ ledger
\* mapping(address => UserAccount): an entry never written reads as zeroes
EmptyAccount ==
    [totalDeposited |-> 0, totalWithdrawn |-> 0, currentBalance |-> 0,
     weeklyGoal |-> 0, safetyBuffer |-> 0, lastSaveTimestamp |-> 0,
     isActive |-> FALSE, trustMode |-> "MANUAL"]

\* no vault call is suspended; otherwise frame holds the call (op, caller and
\* the account it acts on), the transfer it waits for (from, to, amount) and
\* the storage a revert of the transaction restores
NoFrame == [op |-> "none"]

\* faulty variant: a new account stamped with the time of its creation
NewAccountStamped(weeklyGoal, safetyBuffer, trustMode) ==
    [totalDeposited |-> 0, totalWithdrawn |-> 0, currentBalance |-> 0,
     weeklyGoal |-> weeklyGoal, safetyBuffer |-> safetyBuffer,
     lastSaveTimestamp |-> now, isActive |-> TRUE, trustMode |-> trustMode]

NewAccount(weeklyGoal, safetyBuffer, trustMode) ==
    [totalDeposited |-> 0, totalWithdrawn |-> 0, currentBalance |-> 0,
     weeklyGoal |-> weeklyGoal, safetyBuffer |-> safetyBuffer,
     lastSaveTimestamp |-> 0, isActive |-> TRUE, trustMode |-> trustMode]

\* modifier whenNotPaused
WhenNotPaused == ~paused

\* modifier onlyOwner
OnlyOwner(caller) == caller = Owner

\* faulty variant: the outcome of the token transfer is not looked at
AfterTransferIgnored(check, ok) == check

\* a reverting external token transfer reverts the call
AfterTransfer(check, ok) ==
    IF check = "OK" /\ ~ok THEN "TransferFailed" ELSE check

\* faulty variant: createAccount without the check for an existing account
CreateAccountResultOverwriting(caller, weeklyGoal) ==
    IF weeklyGoal <= 0 THEN "GoalNotPositive" ELSE "OK"

CreateAccountResult(caller, weeklyGoal) ==
    IF accounts[caller].isActive THEN "AccountAlreadyExists"
    ELSE IF weeklyGoal <= 0 THEN "GoalNotPositive"
    ELSE "OK"

CreateAccount(caller, weeklyGoal, safetyBuffer, trustMode) ==
    /\ IF CreateAccountResult(caller, weeklyGoal) = "OK"
       THEN accounts' = [accounts EXCEPT ![caller] =
                            NewAccount(weeklyGoal, safetyBuffer, trustMode)]
       ELSE UNCHANGED accounts
    /\ UNCHANGED <<now, paused, x402Executor, totalValueLocked, ops, saves,
                   yieldStrategy, frame, strategyVars, engineVars>>

\* faulty variant: the account is looked at before the amount
DepositCheckActiveFirst(caller, amount) ==
    IF ~WhenNotPaused THEN "EnforcedPause"
    ELSE IF ~accounts[caller].isActive THEN "AccountNotActive"
    ELSE IF amount < MIN_DEPOSIT THEN "InvalidAmount"
    ELSE "OK"

DepositCheck(caller, amount) ==
    IF ~WhenNotPaused THEN "EnforcedPause"
    ELSE IF amount < MIN_DEPOSIT THEN "InvalidAmount"
    ELSE IF ~accounts[caller].isActive THEN "AccountNotActive"
    ELSE "OK"

\* ok: whether usdc.safeTransferFrom(caller, vault, amount) went through
DepositResult(caller, amount, ok) == AfterTransfer(DepositCheck(caller, amount), ok)

\* faulty variant: a deposit that is not added to totalDeposited
CreditBalanceOnly(account, amount) ==
    [account EXCEPT !.currentBalance = @ + amount]

Credit(account, amount) ==
    [account EXCEPT !.totalDeposited = @ + amount,
                    !.currentBalance = @ + amount]

Deposit(caller, amount, ok) ==
    /\ DepositResult(caller, amount, ok) = "OK" => ops < MaxOps
    /\ IF DepositResult(caller, amount, ok) = "OK"
       THEN /\ accounts' = [accounts EXCEPT ![caller] = Credit(@, amount)]
            /\ totalValueLocked' = totalValueLocked + amount
            /\ ops' = ops + 1
       ELSE UNCHANGED <<accounts, totalValueLocked, ops>>
    /\ UNCHANGED <<now, paused, x402Executor, saves,
                   yieldStrategy, frame, strategyVars, engineVars>>

\* faulty variant: the whole balance cannot be withdrawn
WithdrawCheckBelowBalance(caller, amount) ==
    IF ~WhenNotPaused THEN "EnforcedPause"
    ELSE IF amount = 0 THEN "InvalidAmount"
    ELSE IF ~accounts[caller].isActive THEN "AccountNotActive"
    ELSE IF accounts[caller].currentBalance <= amount THEN "InsufficientBalance"
    ELSE "OK"

WithdrawCheck(caller, amount) ==
    IF ~WhenNotPaused THEN "EnforcedPause"
    ELSE IF amount = 0 THEN "InvalidAmount"
    ELSE IF ~accounts[caller].isActive THEN "AccountNotActive"
    ELSE IF accounts[caller].currentBalance < amount THEN "InsufficientBalance"
    ELSE "OK"

\* ok: whether usdc.safeTransfer(caller, amount) went through
WithdrawResult(caller, amount, ok) ==
    AfterTransfer(WithdrawCheck(caller, amount), ok)

\* faulty variant: a withdrawal that is not added to totalWithdrawn
DebitUnrecorded(account, amount) ==
    [account EXCEPT !.currentBalance = @ - amount]

Debit(account, amount) ==
    [account EXCEPT !.totalWithdrawn = @ + amount,
                    !.currentBalance = @ - amount]

\* faulty variant: a withdrawal that leaves totalValueLocked as it was
LockedAfterWithdrawKept(locked, amount) == locked

LockedAfterWithdraw(locked, amount) == locked - amount

Withdraw(caller, amount, ok) ==
    /\ WithdrawResult(caller, amount, ok) = "OK" => ops < MaxOps
    /\ IF WithdrawResult(caller, amount, ok) = "OK"
       THEN /\ accounts' = [accounts EXCEPT ![caller] = Debit(@, amount)]
            /\ totalValueLocked' = LockedAfterWithdraw(totalValueLocked, amount)
            /\ ops' = ops + 1
       ELSE UNCHANGED <<accounts, totalValueLocked, ops>>
    /\ UNCHANGED <<now, paused, x402Executor, saves,
                   yieldStrategy, frame, strategyVars, engineVars>>

\* faulty variant: a goal of zero is taken
UpdateGoalResultAnyGoal(caller, newWeeklyGoal) ==
    IF ~accounts[caller].isActive THEN "AccountNotActive" ELSE "OK"

UpdateGoalResult(caller, newWeeklyGoal) ==
    IF ~accounts[caller].isActive THEN "AccountNotActive"
    ELSE IF newWeeklyGoal <= 0 THEN "GoalNotPositive"
    ELSE "OK"

UpdateGoal(caller, newWeeklyGoal) ==
    /\ IF UpdateGoalResult(caller, newWeeklyGoal) = "OK"
       THEN accounts' = [accounts EXCEPT ![caller].weeklyGoal = newWeeklyGoal]
       ELSE UNCHANGED accounts
    /\ UNCHANGED <<now, paused, x402Executor, totalValueLocked, ops, saves,
                   yieldStrategy, frame, strategyVars, engineVars>>

\* faulty variant: the trust mode of an account that is not active can be set
UpdateTrustModeResultUnchecked(caller) == "OK"

UpdateTrustModeResult(caller) ==
    IF ~accounts[caller].isActive THEN "AccountNotActive" ELSE "OK"

UpdateTrustMode(caller, newMode) ==
    /\ IF UpdateTrustModeResult(caller) = "OK"
       THEN accounts' = [accounts EXCEPT ![caller].trustMode = newMode]
       ELSE UNCHANGED accounts
    /\ UNCHANGED <<now, paused, x402Executor, totalValueLocked, ops, saves,
                   yieldStrategy, frame, strategyVars, engineVars>>

\* faulty variant: executor and owner both admitted, whatever the trust mode
AuthorizedCallerEitherMode(caller, user) ==
    caller = x402Executor \/ caller = user

\* the authorization step of autoSave
AuthorizedCaller(caller, user) ==
    IF accounts[user].trustMode = "AUTO"
    THEN caller = x402Executor
    ELSE caller = user

\* faulty variant: the interval must be exceeded, not only reached
SaveIntervalMetStrict(lastSaveTimestamp, timestamp) ==
    timestamp > lastSaveTimestamp + MIN_SAVE_INTERVAL

\* the rate-limit step of autoSave
SaveIntervalMet(lastSaveTimestamp, timestamp) ==
    ~(timestamp < lastSaveTimestamp + MIN_SAVE_INTERVAL)

\* faulty variant: the caller is looked at before the amount
AutoSaveCheckCallerFirst(caller, user, amount) ==
    IF ~WhenNotPaused THEN "EnforcedPause"
    ELSE IF ~accounts[user].isActive THEN "AccountNotActive"
    ELSE IF ~AuthorizedCaller(caller, user) THEN "UnauthorizedCaller"
    ELSE IF amount = 0 \/ amount > MAX_SAVE_AMOUNT THEN "AmountExceedsLimit"
    ELSE IF ~SaveIntervalMet(accounts[user].lastSaveTimestamp, now)
         THEN "SaveIntervalNotMet"
    ELSE "OK"

AutoSaveCheck(caller, user, amount) ==
    IF ~WhenNotPaused THEN "EnforcedPause"
    ELSE IF ~accounts[user].isActive THEN "AccountNotActive"
    ELSE IF amount = 0 \/ amount > MAX_SAVE_AMOUNT THEN "AmountExceedsLimit"
    ELSE IF ~AuthorizedCaller(caller, user) THEN "UnauthorizedCaller"
    ELSE IF ~SaveIntervalMet(accounts[user].lastSaveTimestamp, now)
         THEN "SaveIntervalNotMet"
    ELSE "OK"

\* ok: whether usdc.safeTransferFrom(user, vault, amount) went through
AutoSaveResult(caller, user, amount, ok) ==
    AfterTransfer(AutoSaveCheck(caller, user, amount), ok)

SaveCredit(account, amount, timestamp) ==
    [account EXCEPT !.totalDeposited = @ + amount,
                    !.currentBalance = @ + amount,
                    !.lastSaveTimestamp = timestamp]

AutoSave(caller, user, amount, ok) ==
    /\ AutoSaveResult(caller, user, amount, ok) = "OK" => ops < MaxOps
    /\ IF AutoSaveResult(caller, user, amount, ok) = "OK"
       THEN /\ accounts' = [accounts EXCEPT ![user] = SaveCredit(@, amount, now)]
            /\ totalValueLocked' = totalValueLocked + amount
            /\ ops' = ops + 1
            /\ saves' = [saves EXCEPT ![user] = Append(@, now)]
       ELSE UNCHANGED <<accounts, totalValueLocked, ops, saves>>
    /\ UNCHANGED <<now, paused, x402Executor, yieldStrategy, frame, strategyVars,
                   engineVars>>

\* view functions
getAccount(user) == accounts[user]

\* faulty variant: the view asks for more than the interval
canAutoSaveStrict(user) ==
    IF ~accounts[user].isActive THEN FALSE
    ELSE now > accounts[user].lastSaveTimestamp + MIN_SAVE_INTERVAL

canAutoSave(user) ==
    IF ~accounts[user].isActive THEN FALSE
    ELSE now >= accounts[user].lastSaveTimestamp + MIN_SAVE_INTERVAL

\* admin functions
SetX402ExecutorResult(caller, executor) ==
    IF ~OnlyOwner(caller) THEN "OwnableUnauthorizedAccount"
    ELSE IF executor = ZeroAddress THEN "ZeroAddress"
    ELSE "OK"

SetX402Executor(caller, executor) ==
    /\ x402Executor' = IF SetX402ExecutorResult(caller, executor) = "OK"
                       THEN executor ELSE x402Executor
    /\ UNCHANGED <<now, paused, accounts, totalValueLocked, ops, saves,
                   yieldStrategy, frame, strategyVars, engineVars>>

SetYieldStrategyResult(caller, strategy) ==
    IF ~OnlyOwner(caller) THEN "OwnableUnauthorizedAccount"
    ELSE IF strategy = ZeroAddress THEN "ZeroAddress"
    ELSE "OK"

SetYieldStrategy(caller, strategy) ==
    /\ yieldStrategy' = IF SetYieldStrategyResult(caller, strategy) = "OK"
                        THEN strategy ELSE yieldStrategy
    /\ UNCHANGED <<now, paused, x402Executor, accounts, totalValueLocked, ops,
                   saves, frame, strategyVars, engineVars>>

PauseResult(caller) ==
    IF ~OnlyOwner(caller) THEN "OwnableUnauthorizedAccount"
    ELSE IF paused THEN "EnforcedPause"
    ELSE "OK"

Pause(caller) ==
    /\ paused' = IF PauseResult(caller) = "OK" THEN TRUE ELSE paused
    /\ UNCHANGED <<now, ledgerVars, strategyVars, engineVars>>

UnpauseResult(caller) ==
    IF ~OnlyOwner(caller) THEN "OwnableUnauthorizedAccount"
    ELSE IF ~paused THEN "ExpectedPause"
    ELSE "OK"

Unpause(caller) ==
    /\ paused' = IF UnpauseResult(caller) = "OK" THEN FALSE ELSE paused
    /\ UNCHANGED <<now, ledgerVars, strategyVars, engineVars>>

\* a later block
Tick(t) ==
    /\ t > now
    /\ now' = t
    /\ UNCHANGED <<paused, ledgerVars, strategyVars, engineVars>>

\* ------------------------------------------------------------------ calls in flight
\* deposit and autoSave hand control to the token (safeTransferFrom) between
\* their checks and their writes, withdraw (safeTransfer) after its writes.
\* Until the transfer returns, the token or whoever it calls may call the vault
\* again, within the same transaction and at the same block time.  A transfer
\* that reverts reverts the whole transaction, nested writes included.

\* faulty variant: a vault without the reentrancy guard
NonReentrantUnguarded == TRUE

\* modifier nonReentrant: the guard is entered while a guarded call runs
NonReentrant == frame.op = "none"

\* modifiers run in the order written: nonReentrant, then whenNotPaused
Entered(check) ==
    IF ~NonReentrant THEN "ReentrancyGuardReentrantCall" ELSE check

DepositEntry(caller, amount) == Entered(DepositCheck(caller, amount))

WithdrawEntry(caller, amount) == Entered(WithdrawCheck(caller, amount))

AutoSaveEntry(caller, user, amount) ==
    Entered(AutoSaveCheck(caller, user, amount))

Suspended(op, caller, user, from, to, amount) ==
    [op |-> op, caller |-> caller, user |-> user, from |-> from, to |-> to,
     amount |-> amount, accounts |-> accounts,
     totalValueLocked |-> totalValueLocked]

\* faulty variant: autoSave pulling the funds from its caller
AutoSaveTransferFromCaller(caller, user, amount) ==
    Suspended("autoSave", caller, user, caller, Vault, amount)

\* usdc.safeTransferFrom(user, address(this), amount) of autoSave
AutoSaveTransfer(caller, user, amount) ==
    Suspended("autoSave", caller, user, user, Vault, amount)

\* deposit up to usdc.safeTransferFrom(msg.sender, address(this), amount)
DepositCall(caller, amount) ==
    /\ DepositEntry(caller, amount) = "OK" => ops < MaxOps
    /\ frame' = IF DepositEntry(caller, amount) = "OK"
                THEN Suspended("deposit", caller, caller, caller, Vault, amount)
                ELSE frame
    /\ UNCHANGED <<now, paused, x402Executor, accounts, totalValueLocked, ops,
                   saves, yieldStrategy, strategyVars, engineVars>>

\* withdraw up to usdc.safeTransfer(msg.sender, amount): the writes come first
WithdrawCall(caller, amount) ==
    /\ WithdrawEntry(caller, amount) = "OK" => ops < MaxOps
    /\ IF WithdrawEntry(caller, amount) = "OK"
       THEN /\ accounts' = [accounts EXCEPT ![caller] = Debit(@, amount)]
            /\ totalValueLocked' = LockedAfterWithdraw(totalValueLocked, amount)
            /\ frame' = Suspended("withdraw", caller, caller, Vault, caller,
                                  amount)
       ELSE UNCHANGED <<accounts, totalValueLocked, frame>>
    /\ UNCHANGED <<now, paused, x402Executor, ops, saves, yieldStrategy,
                   strategyVars, engineVars>>

\* autoSave up to usdc.safeTransferFrom(user, address(this), amount)
AutoSaveCall(caller, user, amount) ==
    /\ AutoSaveEntry(caller, user, amount) = "OK" => ops < MaxOps
    /\ frame' = IF AutoSaveEntry(caller, user, amount) = "OK"
                THEN AutoSaveTransfer(caller, user, amount)
                ELSE frame
    /\ UNCHANGED <<now, paused, x402Executor, accounts, totalValueLocked, ops,
                   saves, yieldStrategy, strategyVars, engineVars>>

\* the token transfer returns (ok) or reverts, and the suspended call with it
TransferReturns(ok) ==
    /\ frame.op # "none"
    /\ frame' = NoFrame
    /\ IF ~ok
       THEN /\ accounts' = frame.accounts
            /\ totalValueLocked' = frame.totalValueLocked
            /\ UNCHANGED <<ops, saves>>
       ELSE /\ ops' = ops + 1
            /\ accounts' =
                  IF frame.op = "deposit"
                  THEN [accounts EXCEPT ![frame.user] = Credit(@, frame.amount)]
                  ELSE IF frame.op = "autoSave"
                  THEN [accounts EXCEPT ![frame.user] =
                           SaveCredit(@, frame.amount, now)]
                  ELSE accounts
            /\ totalValueLocked' =
                  IF frame.op = "withdraw" THEN totalValueLocked
                  ELSE totalValueLocked + frame.amount
            /\ saves' =
                  IF frame.op = "autoSave"
                  THEN [saves EXCEPT ![frame.user] = Append(@, now)]
                  ELSE saves
    /\ UNCHANGED <<now, paused, x402Executor, yieldStrategy, strategyVars,
                   engineVars>>

\* the decision engine before any snapshot has been handed to it
DecisionStrategies == {"CONSERVATIVE", "BALANCED", "AGGRESSIVE"}

\* 1 USDC, in the units amounts are counted in
OneUsdc == 1000000 \div 100

\* maxSavePercentage is a number of the host language; Half is its default 0.5
Half == [num |-> 1, den |-> 2]

DefaultContext ==
    [strategy |-> "BALANCED", minSaveAmount |-> OneUsdc,
     maxSavePercentage |-> Half]

EmptyState ==
    [walletBalance |-> 0, currentSavings |-> 0, weeklyGoal |-> 0,
     safetyBuffer |-> 0, lastSaveTimestamp |-> 0, trustMode |-> "MANUAL",
     isActive |-> FALSE, canAutoSave |-> FALSE, timeSinceLastSave |-> 0]

\* outcome: "none" while decide has not been called, "returned" when it
\* returned the SaveDecision held in the other fields, else the error thrown
NoDecision ==
    [outcome |-> "none", shouldSave |-> FALSE, amount |-> 0, reason |-> "",
     confidence |-> 0, urgency |-> "low"]

Init ==
    /\ now = 1
    /\ paused = FALSE
    /\ x402Executor = ZeroAddress
    /\ accounts = [u \in Users |-> EmptyAccount]
    /\ totalValueLocked = 0
    /\ ops = 0
    /\ saves = [u \in Users |-> <<>>]
    /\ yieldStrategy = ZeroAddress
    /\ frame = NoFrame
    /\ s_savingsVault = ZeroAddress
    /\ s_userLiquidityTokens = [u \in Users |-> 0]
    /\ s_totalLiquidityTokens = 0
    /\ s_slippageTolerance = 50
    /\ minted = 0
    /\ returned = 0
    /\ state = EmptyState
    /\ context = DefaultContext
    /\ decision = NoDecision

WithdrawAmounts(caller) ==
    {0, MIN_DEPOSIT, accounts[caller].currentBalance,
     accounts[caller].currentBalance + 1}

Next ==
    \/ \E c \in Users, g \in GoalInputs, b \in BufferInputs, m \in TrustModes :
          CreateAccount(c, g, b, m)
    \/ \E c \in Users, a \in DepositAmounts, ok \in BOOLEAN : Deposit(c, a, ok)
    \/ \E c \in Users : \E a \in WithdrawAmounts(c), ok \in BOOLEAN :
          Withdraw(c, a, ok)
    \/ \E c \in Users, g \in GoalInputs : UpdateGoal(c, g)
    \/ \E c \in Users, m \in TrustModes : UpdateTrustMode(c, m)
    \/ \E c \in Users \cup Executors, u \in Users, a \in SaveAmounts, ok \in BOOLEAN :
          AutoSave(c, u, a, ok)
    \/ \E c \in {Owner, "alice"}, e \in Executors \cup {ZeroAddress} :
          SetX402Executor(c, e)
    \/ \E c \in {Owner, "alice"} : Pause(c)
    \/ \E c \in {Owner, "alice"} : Unpause(c)
    \/ \E t \in Times : Tick(t)

Spec == Init /\ [][Next]_vars

\* ------------------------------------------------------------------ scenarios
\* The same ledger driven with the amounts of the documented scenarios: an
\* account with goal 100.00 and buffer 50.00, deposits of 60.00, withdrawals of
\* 20.00, saves of the largest amount an autoSave takes.
ScenarioDeposits == {MIN_DEPOSIT - 1, MIN_DEPOSIT, 60 * MIN_DEPOSIT}

ScenarioWithdrawals(caller) ==
    {0, 20 * MIN_DEPOSIT, accounts[caller].currentBalance,
     accounts[caller].currentBalance + 1}

ScenarioTimes == {MIN_SAVE_INTERVAL, 2 * MIN_SAVE_INTERVAL}

ScenarioNext ==
    \/ \E c \in Users, g \in GoalInputs, b \in BufferInputs, m \in TrustModes :
          CreateAccount(c, g, b, m)
    \/ \E c \in Users, a \in ScenarioDeposits, ok \in BOOLEAN : Deposit(c, a, ok)
    \/ \E c \in Users : \E a \in ScenarioWithdrawals(c), ok \in BOOLEAN :
          Withdraw(c, a, ok)
    \/ \E c \in Users \cup Executors, u \in Users, ok \in BOOLEAN :
          AutoSave(c, u, MAX_SAVE_AMOUNT, ok)
    \/ \E c \in {Owner, "alice"} : SetX402Executor(c, "exec")
    \/ \E c \in {Owner, "alice"}, s \in {ZeroAddress, Strategy} :
          SetYieldStrategy(c, s)
    \/ \E c \in {Owner, "alice"} : Pause(c)
    \/ \E c \in {Owner, "alice"} : Unpause(c)
    \/ \E t \in ScenarioTimes : Tick(t)

ScenarioSpec == Init /\ [][ScenarioNext]_vars

\* ------------------------------------------------------------------ settings
\* The ledger with goals that differ from the one an account was created with,
\* and a single amount for its fund movements.
SettingGoals == {0, 25 * MIN_DEPOSIT, 100 * MIN_DEPOSIT}

SettingsNext ==
    \/ \E c \in Users, g \in GoalInputs, b \in BufferInputs, m \in TrustModes :
          CreateAccount(c, g, b, m)
    \/ \E c \in Users, g \in SettingGoals : UpdateGoal(c, g)
    \/ \E c \in Users, m \in TrustModes : UpdateTrustMode(c, m)
    \/ \E c \in Users, ok \in BOOLEAN : Deposit(c, MIN_DEPOSIT, ok)
    \/ \E c \in Users \cup Executors, u \in Users, ok \in BOOLEAN :
          AutoSave(c, u, MIN_DEPOSIT, ok)
    \/ \E c \in {Owner, "alice"} : SetX402Executor(c, "exec")
    \/ \E c \in {Owner, "alice"} : Pause(c)
    \/ \E c \in {Owner, "alice"} : Unpause(c)
    \/ \E t \in ScenarioTimes : Tick(t)

SettingsSpec == Init /\ [][SettingsNext]_vars

\* ------------------------------------------------------------------ reentrancy
\* The ledger with its fund movements split at the token transfer.  While a
\* call is suspended every step is a call nested in its transaction; the
\* owner's calls and the passing of time happen between transactions.
ReentrantNext ==
    \/ \E c \in Users, g \in GoalInputs, b \in BufferInputs, m \in TrustModes :
          CreateAccount(c, g, b, m)
    \/ \E c \in Users, g \in GoalInputs : UpdateGoal(c, g)
    \/ \E c \in Users, m \in TrustModes : UpdateTrustMode(c, m)
    \/ \E c \in Users, a \in {0, MIN_DEPOSIT} : DepositCall(c, a)
    \/ \E c \in Users, a \in {0, MIN_DEPOSIT} : WithdrawCall(c, a)
    \/ \E c \in Users \cup Executors, u \in Users, a \in {0, MIN_DEPOSIT} :
          AutoSaveCall(c, u, a)
    \/ \E ok \in BOOLEAN : TransferReturns(ok)
    \/ frame = NoFrame /\ \E c \in {Owner, "alice"} : SetX402Executor(c, "exec")
    \/ frame = NoFrame /\ \E c \in {Owner, "alice"} : Pause(c)
    \/ frame = NoFrame /\ \E c \in {Owner, "alice"} : Unpause(c)
    \/ frame = NoFrame /\ \E t \in ScenarioTimes : Tick(t)

ReentrantSpec == Init /\ [][ReentrantNext]_vars

\* ------------------------------------------------------------------ strategy
\* faulty variant: the strategy's owner admitted beside the vault
CheckVaultOrOwner(caller) == caller = s_savingsVault \/ caller = Owner

\* modifier onlyVault
CheckVault(caller) == caller = s_savingsVault

HalfAmount(amount) == amount \div 2

\* faulty variant: the minimum is computed with the tolerance of deployment
MinOutputAtDefault(amount) == (amount * (10000 - 50)) \div 10000

\* minimum output handed to the router for an input of amount
MinOutput(amount) == (amount * (10000 - s_slippageTolerance)) \div 10000

\* the arguments of i_VVS_ROUTER.swapExactTokensForTokens in both swaps
SwapCall(amountIn) ==
    [amountIn |-> amountIn, amountOutMin |-> MinOutput(amountIn)]

\* the arguments of i_VVS_ROUTER.addLiquidity
AddLiquidityCall(usdcAmount, usdtAmount) ==
    [amountADesired |-> usdcAmount, amountBDesired |-> usdtAmount,
     amountAMin |-> MinOutput(usdcAmount), amountBMin |-> MinOutput(usdtAmount)]

\* the arguments of i_VVS_ROUTER.removeLiquidity
RemoveLiquidityCall(liquidity) ==
    [liquidity |-> liquidity, amountAMin |-> 0, amountBMin |-> 0]

\* faulty variant: the swap is issued with a minimum output of 0
SwapRevertsUnbounded(usdcAmount, out) == out < 0

\* swapExactTokensForTokens(amountIn, amountOutMin, ...): the router reverts
\* when the pool pays out less than amountOutMin; out is what the pool pays
\* (-1: the router reverts for another reason)
SwapReverts(usdcAmount, out) ==
    out < 0 \/ out < SwapCall(usdcAmount).amountOutMin

\* the swap deposit issues for an amount, and the addLiquidity it issues once
\* the swap has paid usdtAmount
DepositSwapCall(amount) == SwapCall(HalfAmount(amount))

DepositLiquidityCall(amount, usdtAmount) ==
    AddLiquidityCall(HalfAmount(amount), usdtAmount)

\* What the calls to the token and the router did during a deposit: transfer is
\* whether i_USDC.safeTransferFrom went through, swap the USDT amount the pool
\* pays for the swap, liquidity the LP tokens the router returned from
\* addLiquidity (-1: it reverted).
\* faulty variant: the amount is looked at after the funds are pulled
StrategyDepositResultPullFirst(caller, amount, ext) ==
    IF ~CheckVault(caller) THEN "OnlyVault"
    ELSE IF ~ext.transfer THEN "TransferFailed"
    ELSE IF amount = 0 THEN "ZeroAmount"
    ELSE IF SwapReverts(HalfAmount(amount), ext.swap) THEN "RouterReverted"
    ELSE IF ext.liquidity < 0 THEN "RouterReverted"
    ELSE "OK"

StrategyDepositResult(caller, amount, ext) ==
    IF ~CheckVault(caller) THEN "OnlyVault"
    ELSE IF amount = 0 THEN "ZeroAmount"
    ELSE IF ~ext.transfer THEN "TransferFailed"
    ELSE IF SwapReverts(HalfAmount(amount), ext.swap) THEN "RouterReverted"
    ELSE IF ext.liquidity < 0 THEN "RouterReverted"
    ELSE "OK"

MintShares(shares, liquidity) == shares + liquidity

StrategyDeposit(caller, user, amount, ext) ==
    /\ StrategyDepositResult(caller, amount, ext) = "OK" =>
          minted + ext.liquidity <= MaxMinted
    /\ IF StrategyDepositResult(caller, amount, ext) = "OK"
       THEN /\ s_userLiquidityTokens' =
                  [s_userLiquidityTokens EXCEPT
                      ![user] = MintShares(@, ext.liquidity)]
            /\ s_totalLiquidityTokens' =
                  MintShares(s_totalLiquidityTokens, ext.liquidity)
            /\ minted' = minted + ext.liquidity
            /\ returned' = ext.liquidity
       ELSE UNCHANGED <<s_userLiquidityTokens, s_totalLiquidityTokens, minted,
                        returned>>
    /\ UNCHANGED <<now, paused, ledgerVars, engineVars, s_savingsVault, s_slippageTolerance>>

\* ext.remove: whether removeLiquidity went through, ext.usdc and ext.usdt the
\* amounts it paid out; ext.swap: the USDC amount the pool pays for the swap of
\* ext.usdt back (-1: the router reverts for another reason); ext.transfer:
\* whether i_USDC.safeTransfer to the vault went through.
StrategyWithdrawResult(caller, user, liquidityTokens, ext) ==
    IF ~CheckVault(caller) THEN "OnlyVault"
    ELSE IF liquidityTokens = 0 THEN "ZeroAmount"
    ELSE IF s_userLiquidityTokens[user] < liquidityTokens
         THEN "InsufficientLiquidity"
    ELSE IF ~ext.remove THEN "RouterReverted"
    ELSE IF SwapReverts(ext.usdt, ext.swap) THEN "RouterReverted"
    ELSE IF ~ext.transfer THEN "TransferFailed"
    ELSE "OK"

BurnShares(shares, liquidityTokens) == shares - liquidityTokens

\* faulty variant: a withdrawal that leaves the total as it was
BurnTotalKept(total, liquidityTokens) == total

BurnTotal(total, liquidityTokens) == total - liquidityTokens

\* faulty variant: the proceeds of the swap back are left out of the total
WithdrawnAmountDirectOnly(usdcReceived, usdcFromSwap) == usdcReceived

\* usdcAmount, returned and transferred to the vault
WithdrawnAmount(usdcReceived, usdcFromSwap) == usdcReceived + usdcFromSwap

StrategyWithdraw(caller, user, liquidityTokens, ext) ==
    /\ IF StrategyWithdrawResult(caller, user, liquidityTokens, ext) = "OK"
       THEN /\ s_userLiquidityTokens' =
                  [s_userLiquidityTokens EXCEPT
                      ![user] = BurnShares(@, liquidityTokens)]
            /\ s_totalLiquidityTokens' =
                  BurnTotal(s_totalLiquidityTokens, liquidityTokens)
            /\ returned' = WithdrawnAmount(ext.usdc, ext.swap)
       ELSE UNCHANGED <<s_userLiquidityTokens, s_totalLiquidityTokens, returned>>
    /\ UNCHANGED <<now, paused, ledgerVars, engineVars, s_savingsVault, s_slippageTolerance,
                   minted>>

SetSavingsVaultResult(caller, vault) ==
    IF ~OnlyOwner(caller) THEN "OwnableUnauthorizedAccount"
    ELSE IF vault = ZeroAddress THEN "ZeroAddress"
    ELSE "OK"

SetSavingsVault(caller, vault) ==
    /\ s_savingsVault' = IF SetSavingsVaultResult(caller, vault) = "OK"
                         THEN vault ELSE s_savingsVault
    /\ UNCHANGED <<now, paused, ledgerVars, engineVars, s_userLiquidityTokens,
                   s_totalLiquidityTokens, s_slippageTolerance, minted, returned>>

\* faulty variant: no ceiling on the tolerance
SetSlippageToleranceResultUncapped(caller, slippageTolerance) ==
    IF ~OnlyOwner(caller) THEN "OwnableUnauthorizedAccount" ELSE "OK"

SetSlippageToleranceResult(caller, slippageTolerance) ==
    IF ~OnlyOwner(caller) THEN "OwnableUnauthorizedAccount"
    ELSE IF slippageTolerance > 500 THEN "SlippageTooHigh"
    ELSE "OK"

SetSlippageTolerance(caller, slippageTolerance) ==
    /\ s_slippageTolerance' =
          IF SetSlippageToleranceResult(caller, slippageTolerance) = "OK"
          THEN slippageTolerance ELSE s_slippageTolerance
    /\ UNCHANGED <<now, paused, ledgerVars, engineVars, s_savingsVault, s_userLiquidityTokens,
                   s_totalLiquidityTokens, minted, returned>>

\* view functions
\* pool: what i_USDC_USDT_PAIR answers to getReserves, totalSupply and token0
UsdcReserve(pool) == IF pool.token0 = "USDC" THEN pool.reserve0 ELSE pool.reserve1

UsdtReserve(pool) == IF pool.token0 = "USDC" THEN pool.reserve1 ELSE pool.reserve0

\* a user without LP tokens is answered before the pool is asked; otherwise
\* the division by a total supply of 0 panics
GetUserValueResult(user, pool) ==
    IF s_userLiquidityTokens[user] = 0 THEN "OK"
    ELSE IF pool.totalSupply = 0 THEN "Panic"
    ELSE "OK"

\* faulty variant: the user's share of the USDT reserve is left out
getUserValueUsdcOnly(user, pool) ==
    IF s_userLiquidityTokens[user] = 0 THEN 0
    ELSE (UsdcReserve(pool) * s_userLiquidityTokens[user]) \div pool.totalSupply

\* the value returned when GetUserValueResult is "OK"
getUserValue(user, pool) ==
    LET userLiquidity == s_userLiquidityTokens[user]
    IN  IF userLiquidity = 0 THEN 0
        ELSE LET userUsdc == (UsdcReserve(pool) * userLiquidity) \div pool.totalSupply
                 userUsdt == (UsdtReserve(pool) * userLiquidity) \div pool.totalSupply
             IN  userUsdc + userUsdt

calculateYield(user, initialDeposit, pool) ==
    LET currentValue == getUserValue(user, pool)
    IN  IF currentValue > initialDeposit THEN currentValue - initialDeposit
        ELSE 0

userLiquidityTokens(user) == s_userLiquidityTokens[user]

totalLiquidityTokens == s_totalLiquidityTokens

StrategyAmounts == {0, 1, 3, 2 * MIN_DEPOSIT}

LiquidityInputs == {-1, 1, 2}

SwapInputs == {-1, 0, MinOutput(MIN_DEPOSIT) - 1, MIN_DEPOSIT}

DepositExternals ==
    [transfer : BOOLEAN, swap : SwapInputs, liquidity : LiquidityInputs]

WithdrawExternals ==
    [remove : BOOLEAN, usdc : {1}, usdt : {0, 2}, swap : {-1, 1, 2},
     transfer : BOOLEAN]

ShareInputs(user) ==
    {0, 1, s_userLiquidityTokens[user], s_userLiquidityTokens[user] + 1}

ToleranceInputs == {0, 50, 500, 501}

ReserveInputs == {0, 7, 1000}

\* answers of the pair contract; a total supply of 0 is a pair nobody holds
Pools ==
    [reserve0 : ReserveInputs, reserve1 : ReserveInputs,
     totalSupply : {0, 3, 1000}, token0 : {"USDC", "USDT"}]

InitialDeposits == {0, 2, 2000}

StrategyNext ==
    \/ \E c \in StrategyCallers, u \in Users, a \in StrategyAmounts,
          ext \in DepositExternals : StrategyDeposit(c, u, a, ext)
    \/ \E c \in StrategyCallers, u \in Users : \E l \in ShareInputs(u),
          ext \in WithdrawExternals : StrategyWithdraw(c, u, l, ext)
    \/ \E c \in {Owner, "alice"}, v \in {ZeroAddress, Vault, "alice"} :
          SetSavingsVault(c, v)
    \/ \E c \in {Owner, "alice"}, t \in ToleranceInputs :
          SetSlippageTolerance(c, t)
    \/ \E c \in {Owner, "alice"} : Pause(c)
    \/ \E c \in {Owner, "alice"} : Unpause(c)

StrategySpec == Init /\ [][StrategyNext]_vars

\* ------------------------------------------------------------------ engine
\* Amounts are bigint in the engine, confidence is a double built from the
\* literals 0.5, 0.2 and 0.1: it is counted here in tenths. A reason built
\* from formatted amounts is given by its fixed part.
Returned(shouldSave, amount, reason, confidence, urgency) ==
    [outcome |-> "returned", shouldSave |-> shouldSave, amount |-> amount,
     reason |-> reason, confidence |-> confidence, urgency |-> urgency]

Thrown(error) == [NoDecision EXCEPT !.outcome = error]

\* faulty variant: the trust mode looked at before the active flag
preChecksModeFirst(st) ==
    IF st.trustMode # "AUTO"
    THEN Returned(FALSE, 0, "Account is in MANUAL mode - requires user approval",
                  10, "low")
    ELSE IF ~st.isActive
    THEN Returned(FALSE, 0, "Account is not active", 10, "low")
    ELSE IF ~st.canAutoSave
    THEN Returned(FALSE, 0,
                  "Rate limit not met - must wait 24 hours between saves",
                  10, "low")
    ELSE Returned(TRUE, 0, "Pre-checks passed", 10, "low")

preChecks(st) ==
    IF ~st.isActive
    THEN Returned(FALSE, 0, "Account is not active", 10, "low")
    ELSE IF st.trustMode # "AUTO"
    THEN Returned(FALSE, 0, "Account is in MANUAL mode - requires user approval",
                  10, "low")
    ELSE IF ~st.canAutoSave
    THEN Returned(FALSE, 0,
                  "Rate limit not met - must wait 24 hours between saves",
                  10, "low")
    ELSE Returned(TRUE, 0, "Pre-checks passed", 10, "low")

\* faulty variant: the safety buffer is not set aside
calculateAvailableFundsWholeWallet(st) == st.walletBalance

calculateAvailableFunds(st) ==
    LET available == st.walletBalance - st.safetyBuffer
    IN  IF available > 0 THEN available ELSE 0

min(a, b) == IF a < b THEN a ELSE b

\* The hundredths h for which the double (h / 100) * 100 is not the integer h
\* (0.29 * 100 is 28.999999999999996, 0.07 * 100 is 7.000000000000001).
InexactHundredths == {7, 14, 28, 29, 55, 56, 57, 58}

\* whether the double maxSavePercentage * 100 is an integer: BigInt(x) throws
\* a RangeError for a number x that is not
TimesHundredIsInteger(percentage) ==
    /\ (100 * percentage.num) % percentage.den = 0
    /\ ((100 * percentage.num) \div percentage.den) \notin InexactHundredths

\* BigInt(this.context.maxSavePercentage * 100), when it does not throw
BigIntTimesHundred(percentage) == (100 * percentage.num) \div percentage.den

\* (amount * percent) / 100n on integers of any size, for amount >= 0,
\* computed without forming the product
PercentOf(amount, percent) ==
    (amount \div 100) * percent + ((amount % 100) * percent) \div 100

\* faulty variant: a wallet of exactly twice the buffer saves nothing
conservativeStrategyStrict(st, availableFunds) ==
    IF st.walletBalance <= st.safetyBuffer * 2
    THEN 0
    ELSE min((availableFunds * 25) \div 100, st.weeklyGoal)

conservativeStrategy(st, availableFunds) ==
    IF st.walletBalance < st.safetyBuffer * 2
    THEN 0
    ELSE min(PercentOf(availableFunds, 25), st.weeklyGoal)

balancedStrategy(st, availableFunds) ==
    LET maxFromPercentage ==
            PercentOf(availableFunds,
                      BigIntTimesHundred(context.maxSavePercentage))
        maxAmount == min(maxFromPercentage, st.weeklyGoal)
    IN  min(maxAmount, availableFunds)

aggressiveStrategy(st, availableFunds) ==
    min(PercentOf(availableFunds, 80), st.weeklyGoal)

calculateOptimalAmount(st, availableFunds) ==
    CASE context.strategy = "CONSERVATIVE" -> conservativeStrategy(st, availableFunds)
      [] context.strategy = "BALANCED" -> balancedStrategy(st, availableFunds)
      [] context.strategy = "AGGRESSIVE" -> aggressiveStrategy(st, availableFunds)
      [] OTHER -> balancedStrategy(st, availableFunds)

\* whether calculateOptimalAmount throws instead of returning
OptimalAmountThrows ==
    /\ context.strategy \notin {"CONSERVATIVE", "AGGRESSIVE"}
    /\ ~TimesHundredIsInteger(context.maxSavePercentage)

\* faulty variant: a week without a save is urgent whatever the amount
calculateUrgencyHoursOnly(st, amount) ==
    IF st.timeSinceLastSave >= 168 THEN "high"
    ELSE IF st.timeSinceLastSave >= 72 THEN "medium"
    ELSE "low"

calculateUrgency(st, amount) ==
    IF st.timeSinceLastSave >= 168 /\ amount >= st.weeklyGoal \div 2 THEN "high"
    ELSE IF st.timeSinceLastSave >= 72 THEN "medium"
    ELSE "low"

\* Number(walletBalance) / Number(safetyBuffer) > k: the quotient by 0 is
\* Infinity for a positive balance and NaN, above nothing, for 0 / 0
BufferRatioAbove(st, k) ==
    IF st.safetyBuffer = 0 THEN st.walletBalance > 0
    ELSE st.walletBalance > k * st.safetyBuffer

\* 0.1 < Number(amount) / Number(availableFunds) < 0.7
AmountRatioReasonable(availableFunds, amount) ==
    IF availableFunds = 0 THEN FALSE
    ELSE 10 * amount > availableFunds /\ 10 * amount < 7 * availableFunds

\* faulty variant: the amount ratio bonus is granted at the bounds too
calculateConfidenceInclusive(st, availableFunds, amount) ==
    LET confidence ==
            5 + (IF BufferRatioAbove(st, 2) THEN 2 ELSE 0)
              + (IF BufferRatioAbove(st, 3) THEN 1 ELSE 0)
              + (IF availableFunds # 0 /\ 10 * amount >= availableFunds
                    /\ 10 * amount <= 7 * availableFunds THEN 1 ELSE 0)
              + (IF amount <= st.weeklyGoal THEN 1 ELSE 0)
    IN  min(confidence, 10)

calculateConfidence(st, availableFunds, amount) ==
    LET confidence ==
            5 + (IF BufferRatioAbove(st, 2) THEN 2 ELSE 0)
              + (IF BufferRatioAbove(st, 3) THEN 1 ELSE 0)
              + (IF AmountRatioReasonable(availableFunds, amount) THEN 1 ELSE 0)
              + (IF amount <= st.weeklyGoal THEN 1 ELSE 0)
    IN  min(confidence, 10)

decide(st) ==
    LET preCheckResult == preChecks(st)
        availableFunds == calculateAvailableFunds(st)
        optimalAmount == calculateOptimalAmount(st, availableFunds)
        shouldSave == optimalAmount >= context.minSaveAmount
    IN  IF ~preCheckResult.shouldSave THEN preCheckResult
        ELSE IF availableFunds < context.minSaveAmount
        THEN Returned(FALSE, 0, "Available funds below minimum", 10, "low")
        ELSE IF OptimalAmountThrows THEN Thrown("RangeError")
        ELSE Returned(shouldSave,
                      IF shouldSave THEN optimalAmount ELSE 0,
                      IF shouldSave THEN "Saving toward weekly goal"
                                    ELSE "Amount too small to save",
                      calculateConfidence(st, availableFunds, optimalAmount),
                      calculateUrgency(st, optimalAmount))

\* engine.decide(state)
Decide ==
    /\ decision' = decide(state)
    /\ UNCHANGED <<now, paused, ledgerVars, strategyVars, state, context>>

\* engine.setContext(ctx); the decision made under the old context is dropped
SetContext(ctx) ==
    /\ context' = [context EXCEPT !.strategy = ctx.strategy,
                                  !.minSaveAmount = ctx.minSaveAmount,
                                  !.maxSavePercentage = ctx.maxSavePercentage]
    /\ decision' = NoDecision
    /\ UNCHANGED <<now, paused, ledgerVars, strategyVars, state>>

WalletBalances ==
    {50 * OneUsdc, 101 * OneUsdc + 1, 110 * OneUsdc, 200 * OneUsdc,
     1000 * OneUsdc}

SafetyBuffers == {0, 100 * OneUsdc}

WeeklyGoals == {OneUsdc \div 2, OneUsdc + 1, 25 * OneUsdc}

HoursSinceLastSave == {48, 72, 168}

States ==
    [walletBalance : WalletBalances, currentSavings : {100 * OneUsdc},
     weeklyGoal : WeeklyGoals, safetyBuffer : SafetyBuffers,
     lastSaveTimestamp : {0}, trustMode : TrustModes, isActive : BOOLEAN,
     canAutoSave : BOOLEAN, timeSinceLastSave : HoursSinceLastSave]

\* 0.5, 0.25, 0.29, 0.125, 0.1 and 0.7
Percentages ==
    {Half, [num |-> 1, den |-> 4], [num |-> 29, den |-> 100],
     [num |-> 1, den |-> 8], [num |-> 1, den |-> 10], [num |-> 7, den |-> 10]}

Contexts ==
    [strategy : DecisionStrategies, minSaveAmount : {0, OneUsdc},
     maxSavePercentage : Percentages]

\* new DecisionEngine(): the default context, and a snapshot to decide on
EngineInit ==
    /\ now = 1
    /\ paused = FALSE
    /\ x402Executor = ZeroAddress
    /\ accounts = [u \in Users |-> EmptyAccount]
    /\ totalValueLocked = 0
    /\ ops = 0
    /\ saves = [u \in Users |-> <<>>]
    /\ yieldStrategy = ZeroAddress
    /\ frame = NoFrame
    /\ s_savingsVault = ZeroAddress
    /\ s_userLiquidityTokens = [u \in Users |-> 0]
    /\ s_totalLiquidityTokens = 0
    /\ s_slippageTolerance = 50
    /\ minted = 0
    /\ returned = 0
    /\ state \in States
    /\ context = DefaultContext
    /\ decision = NoDecision

EngineNext ==
    \/ Decide
    \/ \E ctx \in Contexts : SetContext(ctx)

EngineSpec == EngineInit /\ [][EngineNext]_vars

\* The agent: it serves one identity, assembles the DecisionSnapshot from the
\* ledger's views of that identity's account and from the wallet balance and
\* the hours it is given, lets the engine decide and has the executor submit
\* the proposed amount to autoSave.
Saver == "alice"

AgentExecutor == "exec"

DecisionSnapshot(user, walletBalance, hours) ==
    [walletBalance |-> walletBalance,
     currentSavings |-> getAccount(user).currentBalance,
     weeklyGoal |-> getAccount(user).weeklyGoal,
     safetyBuffer |-> getAccount(user).safetyBuffer,
     lastSaveTimestamp |-> getAccount(user).lastSaveTimestamp,
     trustMode |-> getAccount(user).trustMode,
     isActive |-> getAccount(user).isActive,
     canAutoSave |-> canAutoSave(user),
     timeSinceLastSave |-> hours]

TakeSnapshot(walletBalance, hours) ==
    /\ state' = DecisionSnapshot(Saver, walletBalance, hours)
    /\ decision' = NoDecision
    /\ UNCHANGED <<now, paused, ledgerVars, strategyVars, context>>

\* the executor calls autoSave(Saver, decision.amount) for a decision to save
SubmitSave(ok) ==
    /\ decision.outcome = "returned"
    /\ decision.shouldSave
    /\ AutoSave(AgentExecutor, Saver, decision.amount, ok)

AgentGoals == {25 * OneUsdc, 2 * MAX_SAVE_AMOUNT}

AgentBuffers == {100 * OneUsdc}

AgentWallets == {1000 * OneUsdc, 25100 * OneUsdc}

AgentContexts ==
    [strategy : DecisionStrategies, minSaveAmount : {0, OneUsdc},
     maxSavePercentage : {Half}]

AgentNext ==
    \/ \E g \in AgentGoals, b \in AgentBuffers, m \in TrustModes :
          CreateAccount(Saver, g, b, m)
    \/ \E g \in AgentGoals : UpdateGoal(Saver, g)
    \/ \E m \in TrustModes : UpdateTrustMode(Saver, m)
    \/ \E c \in {Owner, "alice"} : SetX402Executor(c, AgentExecutor)
    \/ \E c \in {Owner, "alice"} : Pause(c)
    \/ \E c \in {Owner, "alice"} : Unpause(c)
    \/ \E t \in ScenarioTimes : Tick(t)
    \/ \E w \in AgentWallets, h \in HoursSinceLastSave : TakeSnapshot(w, h)
    \/ \E ctx \in AgentContexts : SetContext(ctx)
    \/ Decide
    \/ \E ok \in BOOLEAN : SubmitSave(ok)

AgentSpec == Init /\ [][AgentNext]_vars

\* ------------------------------------------------------------------ properties
\* Vocabulary of the properties below.
InBounds(amount) == amount > 0 /\ amount <= MAX_SAVE_AMOUNT

\* the caller the trust mode of user's account admits for autoSave
Admitted(caller, user) ==
    \/ accounts[user].trustMode = "AUTO" /\ caller = x402Executor
    \/ accounts[user].trustMode = "MANUAL" /\ caller = user

SaveCallers == Users \cup Executors \cup {Owner}

RECURSIVE SumOver(_, _)
SumOver(f, S) ==
    IF S = {} THEN 0
    ELSE LET x == CHOOSE y \in S : TRUE IN f[x] + SumOver(f, S \ {x})

\* C1: in every reachable state of the ledger every account has
\* currentBalance = totalDeposited - totalWithdrawn and currentBalance >= 0.
C1_BalanceInvariant ==
    \A u \in Users :
        /\ accounts[u].currentBalance =
              accounts[u].totalDeposited - accounts[u].totalWithdrawn
        /\ accounts[u].currentBalance >= 0

\* C1 witness: an account that was credited and then partly withdrawn.
C1_Witness ==
    \E u \in Users :
        /\ accounts[u].totalWithdrawn > 0
        /\ accounts[u].currentBalance > 0

\* C2: any two successful autoSaves of one identity lie at least
\* MIN_SAVE_INTERVAL apart, whatever happened in between; and while less than
\* MIN_SAVE_INTERVAL has passed since an identity's last successful autoSave,
\* every autoSave for it fails, with SaveIntervalNotMet once the earlier checks
\* pass, and a step taken then leaves its balance where no autoSave moved it.
C2_SavesSpaced ==
    \A u \in Users :
        /\ \A i, j \in 1..Len(saves[u]) :
              i < j => saves[u][j] - saves[u][i] >= MIN_SAVE_INTERVAL
        /\ (Len(saves[u]) > 0 /\ now < saves[u][Len(saves[u])] + MIN_SAVE_INTERVAL) =>
              \A c \in SaveCallers, a \in SaveAmounts, ok \in BOOLEAN :
                  /\ AutoSaveResult(c, u, a, ok) # "OK"
                  /\ (~paused /\ InBounds(a) /\ Admitted(c, u)) =>
                        AutoSaveResult(c, u, a, ok) = "SaveIntervalNotMet"

\* C2 witness: an identity saved twice, the second time exactly one interval
\* after the first.
C2_Witness ==
    \E u \in Users :
        /\ Len(saves[u]) = 2
        /\ saves[u][2] = saves[u][1] + MIN_SAVE_INTERVAL

\* C3: for an active account on an unpaused ledger, an in-bounds autoSave by
\* the admitted caller at now < lastSaveTimestamp + MIN_SAVE_INTERVAL fails with
\* SaveIntervalNotMet, and no autoSave for a rate-limited account is a step that
\* changes an account, the locked total or the record of saves; at now =
\* lastSaveTimestamp + MIN_SAVE_INTERVAL the rate limit does not reject it.
C3_RateLimit ==
    /\ [](\A u \in Users, c \in SaveCallers, a \in SaveAmounts, ok \in BOOLEAN :
            (~paused /\ accounts[u].isActive /\ InBounds(a) /\ Admitted(c, u)) =>
                /\ now < accounts[u].lastSaveTimestamp + MIN_SAVE_INTERVAL =>
                      AutoSaveResult(c, u, a, ok) = "SaveIntervalNotMet"
                /\ now = accounts[u].lastSaveTimestamp + MIN_SAVE_INTERVAL =>
                      AutoSaveResult(c, u, a, ok) \in {"OK", "TransferFailed"})
    /\ [][\A u \in Users :
            now < accounts[u].lastSaveTimestamp + MIN_SAVE_INTERVAL =>
                \/ UNCHANGED <<accounts, totalValueLocked, saves>>
                \/ \A c \in SaveCallers, a \in SaveAmounts, ok \in BOOLEAN :
                      ~AutoSave(c, u, a, ok)]_vars

\* C3 witness: one hour after a successful autoSave the account is active and
\* the ledger unpaused, so the admitted caller's next autoSave is rate limited.
C3_Witness ==
    \E u \in Users :
        /\ Len(saves[u]) = 1
        /\ accounts[u].lastSaveTimestamp = saves[u][1]
        /\ now = saves[u][1] + 3600
        /\ ~paused
        /\ \E c \in SaveCallers : Admitted(c, u)

\* C4: the first autoSave on a newly created account (lastSaveTimestamp still
\* at its initial value) is never rejected by the rate limit, at any block time.
C4_FirstSaveNotRateLimited ==
    \A u \in Users, c \in SaveCallers, a \in SaveAmounts, ok \in BOOLEAN :
        (accounts[u].isActive /\ Len(saves[u]) = 0) =>
            AutoSaveResult(c, u, a, ok) # "SaveIntervalNotMet"

\* C5: an autoSave succeeds only for the caller the account's trust mode
\* admits (AUTO: the configured executor; MANUAL: the account's owner); any
\* other caller fails, with UnauthorizedCaller once the pause, activity and
\* amount checks pass, and no step that changes an account, the locked total
\* or the record of saves is an autoSave of such a caller.
C5_Authorization ==
    /\ [](\A u \in Users, c \in SaveCallers, a \in SaveAmounts, ok \in BOOLEAN :
            /\ AutoSaveResult(c, u, a, ok) = "OK" => Admitted(c, u)
            /\ ~Admitted(c, u) =>
                  /\ AutoSaveResult(c, u, a, ok) # "OK"
                  /\ (~paused /\ accounts[u].isActive /\ InBounds(a)) =>
                        AutoSaveResult(c, u, a, ok) = "UnauthorizedCaller")
    /\ [][\/ UNCHANGED <<accounts, totalValueLocked, saves>>
          \/ \A u \in Users, c \in SaveCallers :
                ~Admitted(c, u) =>
                    \A a \in SaveAmounts, ok \in BOOLEAN : ~AutoSave(c, u, a, ok)]_vars

\* C5 witness: an AUTO account whose owner is not the executor has just been
\* saved for, and an autoSave by the owner itself is turned away as
\* UnauthorizedCaller.
C5_Witness ==
    /\ accounts["alice"].isActive
    /\ accounts["alice"].trustMode = "AUTO"
    /\ x402Executor = "exec"
    /\ Len(saves["alice"]) = 1
    /\ saves["alice"][1] = now
    /\ ~paused
    /\ AutoSaveResult("alice", "alice", MIN_DEPOSIT, TRUE) = "UnauthorizedCaller"

\* C6: totalValueLocked equals the sum of currentBalance over all accounts.
C6_LockedIsSum ==
    totalValueLocked = SumOver([u \in Users |-> accounts[u].currentBalance], Users)

\* C6 witness: two accounts hold funds and one of them has withdrawn.
C6_Witness ==
    /\ \A u \in Users : accounts[u].currentBalance > 0
    /\ \E u \in Users : accounts[u].totalWithdrawn > 0

\* C7: the owners' share units add up to the strategy's total, and none is
\* negative.
C7_SharesSum ==
    /\ s_totalLiquidityTokens = SumOver(s_userLiquidityTokens, Users)
    /\ \A u \in Users : s_userLiquidityTokens[u] >= 0

\* C7 witness: both owners hold shares and some shares have been burned.
C7_Witness ==
    /\ \A u \in Users : s_userLiquidityTokens[u] > 0
    /\ minted > s_totalLiquidityTokens

\* C8: while the pause is active every mutating ledger operation fails with
\* the pause error, whatever else is wrong with the call.
C8_PauseGatesLedger ==
    paused =>
        /\ \A c \in Users, g \in GoalInputs :
              /\ CreateAccountResult(c, g) = "EnforcedPause"
              /\ UpdateGoalResult(c, g) = "EnforcedPause"
        /\ \A c \in Users : UpdateTrustModeResult(c) = "EnforcedPause"
        /\ \A c \in Users, a \in DepositAmounts, ok \in BOOLEAN :
              DepositResult(c, a, ok) = "EnforcedPause"
        /\ \A c \in Users : \A a \in WithdrawAmounts(c), ok \in BOOLEAN :
              WithdrawResult(c, a, ok) = "EnforcedPause"
        /\ \A c \in SaveCallers, u \in Users, a \in SaveAmounts, ok \in BOOLEAN :
              AutoSaveResult(c, u, a, ok) = "EnforcedPause"

\* C9: while the pause is active the strategy's deposit and withdraw are
\* rejected.
C9_PauseGatesStrategy ==
    paused =>
        /\ \A c \in StrategyCallers, a \in StrategyAmounts, ext \in DepositExternals :
              StrategyDepositResult(c, a, ext) # "OK"
        /\ \A c \in StrategyCallers, u \in Users :
              \A l \in ShareInputs(u), ext \in WithdrawExternals :
                  StrategyWithdrawResult(c, u, l, ext) # "OK"

\* C10: the strategy's deposit and withdraw succeed only for the bound vault
\* address; every other caller, the strategy's owner and the shares' owner
\* included, and every caller while no vault is bound, fails OnlyVault and
\* changes no share balance.
C10_OnlyVault ==
    /\ [](\A c \in StrategyCallers, u \in Users :
            /\ \A a \in StrategyAmounts, ext \in DepositExternals :
                  /\ StrategyDepositResult(c, a, ext) = "OK" => c = s_savingsVault
                  /\ c # s_savingsVault =>
                        StrategyDepositResult(c, a, ext) = "OnlyVault"
            /\ \A l \in ShareInputs(u), ext \in WithdrawExternals :
                  /\ StrategyWithdrawResult(c, u, l, ext) = "OK" => c = s_savingsVault
                  /\ c # s_savingsVault =>
                        StrategyWithdrawResult(c, u, l, ext) = "OnlyVault")
    /\ [][\/ UNCHANGED <<s_userLiquidityTokens, s_totalLiquidityTokens>>
          \/ \A c \in StrategyCallers, u \in Users :
                c # s_savingsVault =>
                    /\ \A a \in StrategyAmounts, ext \in DepositExternals :
                          ~StrategyDeposit(c, u, a, ext)
                    /\ \A l \in ShareInputs(u), ext \in WithdrawExternals :
                          ~StrategyWithdraw(c, u, l, ext)]_vars

\* C10 witness: a vault is bound, shares exist, and the strategy's owner and
\* the shares' owner are both turned away.
C10_Witness ==
    /\ s_savingsVault = Vault
    /\ s_userLiquidityTokens["alice"] > 0
    /\ \A c \in {Owner, "alice"} :
          StrategyWithdrawResult(c, "alice", 1,
              [remove |-> TRUE, usdc |-> 1, usdt |-> 2, swap |-> 2,
               transfer |-> TRUE]) = "OnlyVault"

\* C11: when the external settlement call fails (the pull of funds in deposit
\* and autoSave, the release of funds in withdraw) the operation fails and no
\* account, locked total or record of saves changes; a failed autoSave leaves
\* lastSaveTimestamp as it was, so the same call with the settlement going
\* through succeeds at once.
C11_FailedSettlement ==
    /\ [](\A c \in Users :
            /\ \A a \in DepositAmounts : DepositResult(c, a, FALSE) # "OK"
            /\ \A a \in WithdrawAmounts(c) : WithdrawResult(c, a, FALSE) # "OK")
    /\ [](\A c \in SaveCallers, u \in Users, a \in SaveAmounts :
            /\ AutoSaveResult(c, u, a, FALSE) # "OK"
            /\ AutoSaveResult(c, u, a, FALSE) = "TransferFailed" =>
                  AutoSaveResult(c, u, a, TRUE) = "OK")
    /\ [][\/ UNCHANGED <<accounts, totalValueLocked, saves>>
          \/ /\ \A c \in Users, a \in DepositAmounts : ~Deposit(c, a, FALSE)
             /\ \A c \in Users : \A a \in WithdrawAmounts(c) : ~Withdraw(c, a, FALSE)
             /\ \A c \in SaveCallers, u \in Users, a \in SaveAmounts :
                   ~AutoSave(c, u, a, FALSE)]_vars

\* C11 witness: an account saved once, a full interval later: the admitted
\* caller's next autoSave and a withdrawal of the whole balance both pass
\* every check, and fail only if the settlement call fails.
C11_Witness ==
    \E u \in Users :
        /\ Len(saves[u]) = 1
        /\ accounts[u].lastSaveTimestamp = saves[u][1]
        /\ now >= saves[u][1] + MIN_SAVE_INTERVAL
        /\ \E c \in SaveCallers :
              AutoSaveResult(c, u, MAX_SAVE_AMOUNT, FALSE) = "TransferFailed"
        /\ WithdrawResult(u, accounts[u].currentBalance, FALSE) = "TransferFailed"

\* an external pool call of the deposit fails: the swap reverts or pays out
\* less than the minimum output, or addLiquidity reverts
DepositPoolFailure(amount, ext) ==
    \/ ext.swap < 0
    \/ ext.swap < MinOutput(HalfAmount(amount))
    \/ ext.liquidity < 0

\* an external pool call of the withdrawal fails: removeLiquidity reverts, or
\* the swap back reverts or pays out less than the minimum output
WithdrawPoolFailure(ext) ==
    \/ ~ext.remove
    \/ ext.swap < 0
    \/ ext.swap < MinOutput(ext.usdt)

\* C12: when an external pool call made during the strategy's deposit or
\* withdraw fails (swap, addLiquidity, removeLiquidity, a violation of the
\* slippage bound included) the call fails and no owner's share units and no
\* total change: shares are minted or burned only in calls all of whose pool
\* operations succeeded.
C12_PoolFailureAborts ==
    /\ [](\A c \in StrategyCallers, u \in Users :
            /\ \A a \in StrategyAmounts, ext \in DepositExternals :
                  DepositPoolFailure(a, ext) =>
                      StrategyDepositResult(c, a, ext) # "OK"
            /\ \A l \in ShareInputs(u), ext \in WithdrawExternals :
                  WithdrawPoolFailure(ext) =>
                      StrategyWithdrawResult(c, u, l, ext) # "OK")
    /\ [][\/ UNCHANGED <<s_userLiquidityTokens, s_totalLiquidityTokens>>
          \/ \A c \in {s_savingsVault}, u \in Users :
                /\ \A a \in StrategyAmounts, ext \in DepositExternals :
                      DepositPoolFailure(a, ext) => ~StrategyDeposit(c, u, a, ext)
                /\ \A l \in ShareInputs(u), ext \in WithdrawExternals :
                      WithdrawPoolFailure(ext) =>
                          ~StrategyWithdraw(c, u, l, ext)]_vars

\* C12 witness: the vault is bound and an owner holds shares; a deposit whose
\* swap pays one unit less than the minimum output and a withdrawal whose swap
\* back does so are both turned away by the router.
C12_Witness ==
    /\ s_savingsVault = Vault
    /\ s_userLiquidityTokens["alice"] > 0
    /\ StrategyDepositResult(Vault, 2 * MIN_DEPOSIT,
          [transfer |-> TRUE, swap |-> MinOutput(MIN_DEPOSIT) - 1,
           liquidity |-> 1]) = "RouterReverted"
    /\ StrategyWithdrawResult(Vault, "alice", 1,
          [remove |-> TRUE, usdc |-> 1, usdt |-> 2, swap |-> MinOutput(2) - 1,
           transfer |-> TRUE]) = "RouterReverted"

\* C13 as claimed: a deposit of less than MIN_DEPOSIT always fails with
\* InvalidAmount, for active and inactive accounts alike.
C13_BelowMinimumInvalid ==
    \A c \in Users, a \in DepositAmounts, ok \in BOOLEAN :
        a < MIN_DEPOSIT => DepositResult(c, a, ok) = "InvalidAmount"

\* C13 as amended: a deposit of less than MIN_DEPOSIT always fails, whether the
\* account is active or not and whatever the token transfer would do (it is
\* not reached): with the pause error while the ledger is paused, with
\* InvalidAmount otherwise; and no such deposit is a step that changes an
\* account, the locked total or the record of saves.
C13_BelowMinimumRejected ==
    /\ [](\A c \in Users, a \in DepositAmounts, ok \in BOOLEAN :
            a < MIN_DEPOSIT =>
                DepositResult(c, a, ok) =
                    IF paused THEN "EnforcedPause" ELSE "InvalidAmount")
    /\ [][\/ UNCHANGED <<accounts, totalValueLocked, saves>>
          \/ \A c \in Users, a \in DepositAmounts, ok \in BOOLEAN :
                a < MIN_DEPOSIT => ~Deposit(c, a, ok)]_vars

\* C13 witness: on an unpaused ledger one account is active and funded and the
\* other was never created; a deposit one unit below the minimum is
\* InvalidAmount for both.
C13_Witness ==
    /\ ~paused
    /\ accounts["alice"].isActive
    /\ accounts["alice"].currentBalance > 0
    /\ ~accounts["bob"].isActive
    /\ \A c \in Users :
          DepositResult(c, MIN_DEPOSIT - 1, TRUE) = "InvalidAmount"

\* the fields of an account a deposit or a withdrawal leaves alone
SettingsKept(u) ==
    /\ accounts'[u].weeklyGoal = accounts[u].weeklyGoal
    /\ accounts'[u].safetyBuffer = accounts[u].safetyBuffer
    /\ accounts'[u].lastSaveTimestamp = accounts[u].lastSaveTimestamp
    /\ accounts'[u].isActive = accounts[u].isActive
    /\ accounts'[u].trustMode = accounts[u].trustMode

OthersKept(u) == \A v \in Users \ {u} : accounts'[v] = accounts[v]

\* C14: a successful deposit adds exactly the amount to the account's
\* totalDeposited and currentBalance and to totalValueLocked, and leaves the
\* account's totalWithdrawn, goal, buffer, lastSaveTimestamp, active flag and
\* trust mode, and every other account, as they were; on an unpaused ledger a
\* deposit of at least MIN_DEPOSIT into an active account passes every check
\* whatever the time since the last autoSave.
C14_DepositEffect ==
    /\ [](\A c \in Users, a \in ScenarioDeposits :
            (~paused /\ accounts[c].isActive /\ a >= MIN_DEPOSIT) =>
                DepositResult(c, a, TRUE) = "OK")
    /\ [][\/ UNCHANGED <<accounts, totalValueLocked, saves>>
          \/ \A c \in Users, a \in ScenarioDeposits :
                (DepositResult(c, a, TRUE) = "OK" /\ Deposit(c, a, TRUE)) =>
                    /\ accounts'[c].totalDeposited =
                          accounts[c].totalDeposited + a
                    /\ accounts'[c].currentBalance =
                          accounts[c].currentBalance + a
                    /\ accounts'[c].totalWithdrawn = accounts[c].totalWithdrawn
                    /\ SettingsKept(c)
                    /\ OthersKept(c)
                    /\ totalValueLocked' = totalValueLocked + a
                    /\ saves' = saves]_vars

\* C14 witness: an account created with goal 100.00, buffer 50.00 and MANUAL
\* mode holds currentBalance = totalDeposited = 60.00 after one deposit, made
\* while an autoSave for it would be rate limited.
C14_Witness ==
    \E u \in Users :
        /\ accounts[u].weeklyGoal = 100 * MIN_DEPOSIT
        /\ accounts[u].safetyBuffer = 50 * MIN_DEPOSIT
        /\ accounts[u].trustMode = "MANUAL"
        /\ accounts[u].currentBalance = 60 * MIN_DEPOSIT
        /\ accounts[u].totalDeposited = 60 * MIN_DEPOSIT
        /\ ops = 1
        /\ ~SaveIntervalMet(accounts[u].lastSaveTimestamp, now)

\* C15: on an unpaused ledger a withdrawal whose release of funds goes through
\* succeeds exactly when the account is active and 0 < amount <= currentBalance;
\* it then takes the amount off currentBalance and totalValueLocked, adds it to
\* totalWithdrawn and leaves totalDeposited alone. Otherwise it fails, before
\* any funds are released, with InvalidAmount (amount = 0), AccountNotActive, or
\* InsufficientBalance (amount > currentBalance), and changes nothing.
C15_Withdraw ==
    /\ [](\A c \in Users : \A a \in ScenarioWithdrawals(c) :
            ~paused =>
                /\ WithdrawResult(c, a, TRUE) = "OK" <=>
                      (accounts[c].isActive /\ 0 < a
                          /\ a <= accounts[c].currentBalance)
                /\ \A ok \in BOOLEAN :
                      /\ a = 0 => WithdrawResult(c, a, ok) = "InvalidAmount"
                      /\ (a > 0 /\ ~accounts[c].isActive) =>
                            WithdrawResult(c, a, ok) = "AccountNotActive"
                      /\ (accounts[c].isActive /\ a > accounts[c].currentBalance) =>
                            WithdrawResult(c, a, ok) = "InsufficientBalance")
    /\ [][\/ UNCHANGED <<accounts, totalValueLocked, saves>>
          \/ \A c \in Users : \A a \in ScenarioWithdrawals(c) :
                /\ WithdrawResult(c, a, TRUE) # "OK" => ~Withdraw(c, a, TRUE)
                /\ (WithdrawResult(c, a, TRUE) = "OK" /\ Withdraw(c, a, TRUE)) =>
                      /\ accounts'[c].currentBalance =
                            accounts[c].currentBalance - a
                      /\ accounts'[c].totalWithdrawn =
                            accounts[c].totalWithdrawn + a
                      /\ accounts'[c].totalDeposited = accounts[c].totalDeposited
                      /\ SettingsKept(c)
                      /\ OthersKept(c)
                      /\ totalValueLocked' = totalValueLocked - a
                      /\ saves' = saves]_vars

\* C15 witness: after a deposit of 60.00 and a withdrawal of 20.00 the account
\* holds 40.00 with totalWithdrawn = 20.00, and the whole of it can be
\* withdrawn.
C15_Witness ==
    \E u \in Users :
        /\ accounts[u].totalDeposited = 60 * MIN_DEPOSIT
        /\ accounts[u].totalWithdrawn = 20 * MIN_DEPOSIT
        /\ accounts[u].currentBalance = 40 * MIN_DEPOSIT
        /\ WithdrawResult(u, accounts[u].currentBalance, TRUE) = "OK"

\* C16: createAccount fails AccountAlreadyExists when the caller has an active
\* account and GoalNotPositive when weeklyGoal <= 0, neither changing any
\* account; otherwise it installs an account with zero totals and balance,
\* lastSaveTimestamp at its initial value, active, with the given goal, buffer
\* and trust mode, and touches no other account. Hence an account once
\* created stays active, and no step lowers its totalDeposited, totalWithdrawn
\* or lastSaveTimestamp.
C16_CreateAccount ==
    /\ [](\A c \in Users, g \in GoalInputs :
            /\ accounts[c].isActive =>
                  CreateAccountResult(c, g) = "AccountAlreadyExists"
            /\ (~accounts[c].isActive /\ g <= 0) =>
                  CreateAccountResult(c, g) = "GoalNotPositive"
            /\ (~accounts[c].isActive /\ g > 0) =>
                  CreateAccountResult(c, g) = "OK")
    /\ [][\/ UNCHANGED accounts
          \/ /\ \A c \in Users, g \in GoalInputs, b \in BufferInputs,
                   m \in TrustModes :
                   /\ CreateAccountResult(c, g) # "OK" =>
                         ~CreateAccount(c, g, b, m)
                   /\ (CreateAccountResult(c, g) = "OK"
                          /\ CreateAccount(c, g, b, m)) =>
                         /\ accounts'[c] =
                               [totalDeposited |-> 0, totalWithdrawn |-> 0,
                                currentBalance |-> 0, weeklyGoal |-> g,
                                safetyBuffer |-> b, lastSaveTimestamp |-> 0,
                                isActive |-> TRUE, trustMode |-> m]
                         /\ OthersKept(c)
             /\ \A u \in Users :
                   accounts[u].isActive =>
                       /\ accounts'[u].isActive
                       /\ accounts'[u].totalDeposited >= accounts[u].totalDeposited
                       /\ accounts'[u].totalWithdrawn >= accounts[u].totalWithdrawn
                       /\ accounts'[u].lastSaveTimestamp >=
                             accounts[u].lastSaveTimestamp]_vars

\* C16 witness: one account has deposited, withdrawn and been saved for, and a
\* further createAccount by its owner is AccountAlreadyExists; the other
\* account stands as createAccount installed it.
C16_Witness ==
    /\ accounts["alice"].totalWithdrawn > 0
    /\ accounts["alice"].lastSaveTimestamp > 0
    /\ CreateAccountResult("alice", 100 * MIN_DEPOSIT) = "AccountAlreadyExists"
    /\ accounts["bob"] = NewAccount(100 * MIN_DEPOSIT, 50 * MIN_DEPOSIT, "AUTO")

\* C17: a withdrawal by the bound vault fails ZeroAmount for zero share units
\* and InsufficientLiquidity for more than the owner holds, whatever the pool
\* would answer (it is not called), and changes nothing; a successful one
\* takes exactly the share units off the owner's balance and off the total,
\* leaves every other owner's shares alone, and returns the primary-asset
\* amount removeLiquidity paid out plus what the swap of all the secondary
\* asset paid out.
C17_StrategyWithdraw ==
    /\ [](\A u \in Users : \A l \in ShareInputs(u), ext \in WithdrawExternals :
            /\ l = 0 =>
                  StrategyWithdrawResult(s_savingsVault, u, l, ext) = "ZeroAmount"
            /\ l > s_userLiquidityTokens[u] =>
                  StrategyWithdrawResult(s_savingsVault, u, l, ext) =
                      "InsufficientLiquidity")
    /\ [][\/ UNCHANGED <<s_userLiquidityTokens, s_totalLiquidityTokens, returned>>
          \/ \A u \in Users : \A l \in ShareInputs(u), ext \in WithdrawExternals :
                /\ StrategyWithdrawResult(s_savingsVault, u, l, ext) # "OK" =>
                      ~StrategyWithdraw(s_savingsVault, u, l, ext)
                /\ (StrategyWithdrawResult(s_savingsVault, u, l, ext) = "OK"
                       /\ StrategyWithdraw(s_savingsVault, u, l, ext)) =>
                      /\ s_userLiquidityTokens'[u] = s_userLiquidityTokens[u] - l
                      /\ \A v \in Users \ {u} :
                            s_userLiquidityTokens'[v] = s_userLiquidityTokens[v]
                      /\ s_totalLiquidityTokens' = s_totalLiquidityTokens - l
                      /\ returned' = ext.usdc + ext.swap]_vars

\* C17 witness: a withdrawal has returned 3, one unit from removeLiquidity and
\* two from the swap back; both owners still hold shares, and asking for one
\* more than an owner holds is InsufficientLiquidity.
C17_Witness ==
    /\ s_savingsVault = Vault
    /\ returned = 3
    /\ minted > s_totalLiquidityTokens
    /\ \A u \in Users :
          /\ s_userLiquidityTokens[u] > 0
          /\ StrategyWithdrawResult(Vault, u, s_userLiquidityTokens[u] + 1,
                [remove |-> TRUE, usdc |-> 1, usdt |-> 2, swap |-> 2,
                 transfer |-> TRUE]) = "InsufficientLiquidity"

\* C18: the strategy's slippage tolerance is at most 500 basis points in every
\* reachable state, its initial value included: setSlippageTolerance by the
\* owner is SlippageTooHigh above 500 and leaves the tolerance as it was, and
\* installs every value from 0 to 500.
C18_ToleranceCapped ==
    /\ [](s_slippageTolerance >= 0 /\ s_slippageTolerance <= 500)
    /\ [](\A t \in ToleranceInputs :
            SetSlippageToleranceResult(Owner, t) =
                IF t > 500 THEN "SlippageTooHigh" ELSE "OK")
    /\ [][\A t \in ToleranceInputs :
            SetSlippageTolerance(Owner, t) =>
                s_slippageTolerance' = IF t > 500 THEN s_slippageTolerance ELSE t]_vars

\* C18 witness: the owner has raised the tolerance to the ceiling of 500 while
\* shares are out, and one basis point more is SlippageTooHigh.
C18_Witness ==
    /\ s_slippageTolerance = 500
    /\ s_totalLiquidityTokens > 0
    /\ SetSlippageToleranceResult(Owner, 501) = "SlippageTooHigh"

\* a decision that declines with full confidence and low urgency
Declined(reason) ==
    [outcome |-> "returned", shouldSave |-> FALSE, amount |-> 0,
     reason |-> reason, confidence |-> 10, urgency |-> "low"]

\* C19: decide short-circuits on an inactive account, then on a trust mode
\* other than AUTO, then on an unsatisfied rate limit: it returns shouldSave
\* false, amount 0, confidence 1.0 (ten tenths), urgency low and the reason of
\* the first of these checks that fails, for every wallet balance, goal,
\* buffer, strategy and percentage.
C19_PreChecksShortCircuit ==
    decision.outcome # "none" =>
        /\ ~state.isActive => decision = Declined("Account is not active")
        /\ (state.isActive /\ state.trustMode # "AUTO") =>
              decision =
                  Declined("Account is in MANUAL mode - requires user approval")
        /\ (state.isActive /\ state.trustMode = "AUTO" /\ ~state.canAutoSave) =>
              decision =
                  Declined("Rate limit not met - must wait 24 hours between saves")

\* C19 witness: decide has answered for a snapshot failing all three checks,
\* with funds to spare, under the AGGRESSIVE strategy and a percentage of 0.29.
C19_Witness ==
    /\ decision.outcome = "returned"
    /\ ~state.isActive
    /\ state.trustMode = "MANUAL"
    /\ ~state.canAutoSave
    /\ state.walletBalance = 1000 * OneUsdc
    /\ context.strategy = "AGGRESSIVE"
    /\ context.maxSavePercentage = [num |-> 29, den |-> 100]

\* floor(amount * percentage)
FloorOfShare(amount, percentage) == (amount * percentage.num) \div percentage.den

\* C20: under the BALANCED strategy, for a snapshot that passes the pre-checks
\* with availableFunds = max(0, walletBalance - safetyBuffer) >= minSaveAmount,
\* decide returns, and the optimal amount is the least of
\* floor(availableFunds * maxSavePercentage), weeklyGoal and availableFunds;
\* shouldSave tells whether it reaches minSaveAmount and the amount proposed is
\* then that amount.
C20_BalancedAmount ==
    LET availableFunds ==
            IF state.walletBalance - state.safetyBuffer > 0
            THEN state.walletBalance - state.safetyBuffer ELSE 0
        optimalAmount ==
            min(min(FloorOfShare(availableFunds, context.maxSavePercentage),
                    state.weeklyGoal), availableFunds)
    IN  (/\ decision.outcome # "none"
         /\ context.strategy = "BALANCED"
         /\ state.isActive /\ state.trustMode = "AUTO" /\ state.canAutoSave
         /\ availableFunds >= context.minSaveAmount) =>
            /\ decision.outcome = "returned"
            /\ calculateOptimalAmount(state, availableFunds) = optimalAmount
            /\ decision.shouldSave = (optimalAmount >= context.minSaveAmount)
            /\ decision.shouldSave => decision.amount = optimalAmount

\* C21: for every snapshot and every strategy profile decide returns, with
\* shouldSave true exactly when the pre-checks pass, availableFunds reaches
\* minSaveAmount and optimalAmount reaches minSaveAmount; the amount returned
\* is optimalAmount when shouldSave is true and 0 when it is false.
C21_ShouldSaveExactly ==
    LET availableFunds == calculateAvailableFunds(state)
        optimalAmount == calculateOptimalAmount(state, availableFunds)
        passes == /\ state.isActive
                  /\ state.trustMode = "AUTO"
                  /\ state.canAutoSave
                  /\ availableFunds >= context.minSaveAmount
                  /\ optimalAmount >= context.minSaveAmount
    IN  decision.outcome # "none" =>
            /\ decision.outcome = "returned"
            /\ decision.shouldSave = passes
            /\ decision.amount = IF passes THEN optimalAmount ELSE 0

\* C21 away from the percentages whose hundredfold is no integer: the same
\* statement where maxSavePercentage * 100 is exact or the strategy does not
\* use it.
C21_ShouldSaveExactlyWhenExact ==
    (context.strategy = "BALANCED" =>
         TimesHundredIsInteger(context.maxSavePercentage)) =>
        C21_ShouldSaveExactly

\* C22 as stated: whenever decide returns shouldSave = true the amount
\* proposed satisfies minSaveAmount <= amount <= weeklyGoal and
\* amount <= walletBalance - safetyBuffer.
C22_AmountWithinWallet ==
    (decision.outcome = "returned" /\ decision.shouldSave) =>
        /\ context.minSaveAmount <= decision.amount
        /\ decision.amount <= state.weeklyGoal
        /\ decision.amount <= state.walletBalance - state.safetyBuffer

\* C22: whenever decide returns shouldSave = true the amount proposed
\* satisfies minSaveAmount <= amount <= weeklyGoal and
\* amount <= max(0, walletBalance - safetyBuffer), so that taking a positive
\* amount out of the wallet leaves at least safetyBuffer in it.
C22_AmountWithinAvailable ==
    (decision.outcome = "returned" /\ decision.shouldSave) =>
        /\ context.minSaveAmount <= decision.amount
        /\ decision.amount <= state.weeklyGoal
        /\ decision.amount >= 0
        /\ state.walletBalance - state.safetyBuffer >= 0 =>
              decision.amount <= state.walletBalance - state.safetyBuffer
        /\ state.walletBalance - state.safetyBuffer < 0 => decision.amount = 0
        /\ decision.amount > 0 =>
              state.walletBalance - decision.amount >= state.safetyBuffer

\* C22 witness: decide proposes all of the 10.00 that a wallet of 110.00 holds
\* above its buffer of 100.00, under the AGGRESSIVE strategy and a goal of
\* 25.00.
C22_Witness ==
    /\ decision.outcome = "returned"
    /\ decision.shouldSave
    /\ context.strategy = "AGGRESSIVE"
    /\ state.walletBalance = 110 * OneUsdc
    /\ state.safetyBuffer = 100 * OneUsdc
    /\ state.weeklyGoal = 25 * OneUsdc
    /\ decision.amount > 0

\* the balance fields and the autoSave stamp of account u are left as they are
FundsKept(u) ==
    /\ accounts'[u].totalDeposited = accounts[u].totalDeposited
    /\ accounts'[u].totalWithdrawn = accounts[u].totalWithdrawn
    /\ accounts'[u].currentBalance = accounts[u].currentBalance
    /\ accounts'[u].lastSaveTimestamp = accounts[u].lastSaveTimestamp

\* C23: while a deposit, withdraw or autoSave is suspended in its token
\* transfer, every nested deposit, withdraw or autoSave is rejected and no
\* nested call moves a balance, a total, totalValueLocked or lastSaveTimestamp;
\* an autoSave therefore commits against the lastSaveTimestamp and the balance
\* its checks read, and two successful autoSaves of one identity are always at
\* least MIN_SAVE_INTERVAL apart.
C23_GuardedCallsAtomic ==
    /\ [](frame.op # "none" =>
            \A c \in SaveCallers, u \in Users, a \in {0, MIN_DEPOSIT} :
                /\ DepositEntry(u, a) = "ReentrancyGuardReentrantCall"
                /\ WithdrawEntry(u, a) = "ReentrancyGuardReentrantCall"
                /\ AutoSaveEntry(c, u, a) = "ReentrancyGuardReentrantCall")
    /\ [](\A u \in Users : \A i, j \in 1..Len(saves[u]) :
            i < j => saves[u][j] - saves[u][i] >= MIN_SAVE_INTERVAL)
    /\ [][\/ UNCHANGED <<accounts, totalValueLocked, saves, frame>>
          \/ /\ (frame.op # "none" /\ frame'.op # "none") =>
                   /\ frame' = frame
                   /\ totalValueLocked' = totalValueLocked
                   /\ saves' = saves
                   /\ \A u \in Users : FundsKept(u)
             /\ (frame.op = "autoSave" /\ saves' # saves) =>
                   LET u == frame.user
                   IN  /\ accounts[u].lastSaveTimestamp =
                             frame.accounts[u].lastSaveTimestamp
                       /\ SaveIntervalMet(accounts[u].lastSaveTimestamp, now)
                       /\ accounts'[u].lastSaveTimestamp = now
                       /\ accounts'[u].currentBalance =
                             frame.accounts[u].currentBalance + frame.amount
                       /\ totalValueLocked' =
                             frame.totalValueLocked + frame.amount]_vars

\* C23 witness: an autoSave of an identity that has saved once before is
\* suspended in its transfer, and a second autoSave by the same caller would
\* pass every check of the body, the rate limit included.
C23_Witness ==
    /\ frame.op = "autoSave"
    /\ Len(saves[frame.user]) = 1
    /\ AutoSaveCheck(frame.caller, frame.user, MIN_DEPOSIT) = "OK"

\* the fields of account a that updateGoal, updateTrustMode and createAccount
\* set
Settings(a) == <<a.weeklyGoal, a.safetyBuffer, a.trustMode, a.isActive>>

\* C24: updateGoal, updateTrustMode and createAccount for an identity do not
\* take effect while a deposit, withdraw or autoSave for that identity is
\* between its checks and its commit: when the suspended call commits, the
\* goal, buffer, trust mode and active flag of its account are those its checks
\* read, so an autoSave never commits under a trust mode other than the one
\* its authorization check evaluated.
C24_SettingsSerialized ==
    [][(frame.op # "none" /\ ops' = ops + 1) =>
           Settings(accounts[frame.user]) =
               Settings(frame.accounts[frame.user])]_vars

\* the first check of autoSave's body that fails, in the order NotActive,
\* AmountOutOfBounds, Unauthorized, RateLimitNotMet
FirstFailing(caller, user, amount) ==
    IF ~accounts[user].isActive THEN "AccountNotActive"
    ELSE IF ~InBounds(amount) THEN "AmountExceedsLimit"
    ELSE IF ~Admitted(caller, user) THEN "UnauthorizedCaller"
    ELSE IF now < accounts[user].lastSaveTimestamp + MIN_SAVE_INTERVAL
         THEN "SaveIntervalNotMet"
    ELSE "OK"

\* C25 as stated: autoSave reports the first failing check in the order
\* NotActive, AmountOutOfBounds, Unauthorized, RateLimitNotMet, in every state
\* of the ledger.
C25_CheckOrder ==
    \A c \in SaveCallers, u \in Users, a \in SaveAmounts :
        AutoSaveResult(c, u, a, TRUE) = FirstFailing(c, u, a)

\* C25: on an unpaused ledger autoSave reports the first failing check in the
\* order NotActive, AmountOutOfBounds, Unauthorized, RateLimitNotMet: an
\* inactive account yields NotActive whatever the amount and caller, an amount
\* of 0 or above MAX_SAVE_AMOUNT on an active account yields AmountOutOfBounds
\* even for an unauthorized caller, an unauthorized caller with an in-bounds
\* amount yields Unauthorized even inside the rate-limit window, and
\* MAX_SAVE_AMOUNT itself is in bounds; on a paused ledger autoSave fails with
\* the pause error before any of them.
C25_CheckOrderUnpaused ==
    \A c \in SaveCallers, u \in Users, a \in SaveAmounts :
        /\ paused => AutoSaveResult(c, u, a, TRUE) = "EnforcedPause"
        /\ ~paused =>
              /\ AutoSaveResult(c, u, a, TRUE) = FirstFailing(c, u, a)
              /\ ~accounts[u].isActive =>
                    AutoSaveResult(c, u, a, TRUE) = "AccountNotActive"
              /\ (accounts[u].isActive /\ (a = 0 \/ a > MAX_SAVE_AMOUNT)) =>
                    AutoSaveResult(c, u, a, TRUE) = "AmountExceedsLimit"
              /\ (accounts[u].isActive /\ a = MAX_SAVE_AMOUNT
                    /\ ~Admitted(c, u)) =>
                    AutoSaveResult(c, u, a, TRUE) = "UnauthorizedCaller"
              /\ (accounts[u].isActive /\ a = MAX_SAVE_AMOUNT /\ Admitted(c, u)
                    /\ now >= accounts[u].lastSaveTimestamp + MIN_SAVE_INTERVAL)
                    => AutoSaveResult(c, u, a, TRUE) = "OK"

\* C25 witness: on an unpaused ledger alice's account is active and inside the
\* rate-limit window of a save it has made; bob, whom its trust mode does not
\* admit, is refused as unauthorized for MAX_SAVE_AMOUNT and as out of bounds
\* for one unit more.
C25_Witness ==
    /\ ~paused
    /\ accounts["alice"].isActive
    /\ Len(saves["alice"]) > 0
    /\ now < accounts["alice"].lastSaveTimestamp + MIN_SAVE_INTERVAL
    /\ AutoSaveResult("bob", "alice", MAX_SAVE_AMOUNT, TRUE) = "UnauthorizedCaller"
    /\ AutoSaveResult("bob", "alice", MAX_SAVE_AMOUNT + 1, TRUE) =
          "AmountExceedsLimit"

\* C26: an autoSave that passes its checks asks the token for amount from the
\* identity's own funds to the vault, whoever the caller is; when the transfer
\* has gone through it adds exactly amount to the identity's totalDeposited and
\* currentBalance and to totalValueLocked, sets lastSaveTimestamp to the
\* current time, and leaves totalWithdrawn, weeklyGoal, safetyBuffer,
\* trustMode, the active flag and every other account as they were.
C26_AutoSaveEffect ==
    /\ [](frame.op = "autoSave" =>
            /\ frame.from = frame.user
            /\ frame.to = Vault
            /\ frame.amount > 0)
    /\ [][\/ UNCHANGED <<accounts, totalValueLocked, saves>>
          \/ (frame.op = "autoSave" /\ saves' # saves) =>
                LET u == frame.user
                IN  /\ accounts'[u].totalDeposited =
                          accounts[u].totalDeposited + frame.amount
                    /\ accounts'[u].currentBalance =
                          accounts[u].currentBalance + frame.amount
                    /\ accounts'[u] =
                          [Credit(accounts[u], frame.amount)
                              EXCEPT !.lastSaveTimestamp = now]
                    /\ totalValueLocked' = totalValueLocked + frame.amount
                    /\ accounts'[u].lastSaveTimestamp = now
                    /\ accounts'[u].totalWithdrawn = accounts[u].totalWithdrawn
                    /\ accounts'[u].weeklyGoal = accounts[u].weeklyGoal
                    /\ accounts'[u].safetyBuffer = accounts[u].safetyBuffer
                    /\ accounts'[u].trustMode = accounts[u].trustMode
                    /\ accounts'[u].isActive = accounts[u].isActive
                    /\ OthersKept(u)]_vars

\* C26 witness: the executor's autoSave of bob, whose account is on AUTO, has
\* gone through in the current block.
C26_Witness ==
    /\ frame = NoFrame
    /\ saves["bob"] = <<now>>
    /\ x402Executor = "exec"
    /\ accounts["bob"].trustMode = "AUTO"
    /\ accounts["bob"].totalDeposited = MIN_DEPOSIT

\* C27 as stated: on an account that is not active, deposit, withdraw,
\* updateGoal, updateTrustMode and autoSave fail with NotActive, and an account
\* never goes from active to not active or back.
C27_InactiveFailsNotActive ==
    /\ [](\A u \in Users : ~accounts[u].isActive =>
            /\ \A a \in DepositAmounts :
                  DepositResult(u, a, TRUE) = "AccountNotActive"
            /\ \A a \in WithdrawAmounts(u) :
                  WithdrawResult(u, a, TRUE) = "AccountNotActive"
            /\ \A g \in GoalInputs : UpdateGoalResult(u, g) = "AccountNotActive"
            /\ UpdateTrustModeResult(u) = "AccountNotActive"
            /\ \A c \in SaveCallers, a \in SaveAmounts :
                  AutoSaveResult(c, u, a, TRUE) = "AccountNotActive")
    /\ [][\A u \in Users : accounts[u].isActive => accounts'[u].isActive]_vars

\* C27: an account is uninitialized (never written) or active, and an active
\* account stays active: the ledger has no operation that deactivates one.  On
\* an account that is not active deposit, withdraw, updateGoal, updateTrustMode
\* and autoSave fail and change nothing: updateGoal and updateTrustMode with
\* NotActive; autoSave with NotActive unless the ledger is paused (pause
\* error); deposit and withdraw with NotActive unless the ledger is paused
\* (pause error) or the amount is below MIN_DEPOSIT, respectively 0
\* (InvalidAmount).  The reads answer for such an account, and only
\* createAccount makes it active.
C27_Lifecycle ==
    /\ [](\A u \in Users : ~accounts[u].isActive =>
            /\ accounts[u] = EmptyAccount
            /\ getAccount(u) = EmptyAccount
            /\ canAutoSave(u) = FALSE
            /\ \A a \in DepositAmounts :
                  DepositResult(u, a, TRUE) =
                      IF paused THEN "EnforcedPause"
                      ELSE IF a < MIN_DEPOSIT THEN "InvalidAmount"
                      ELSE "AccountNotActive"
            /\ \A a \in WithdrawAmounts(u) :
                  WithdrawResult(u, a, TRUE) =
                      IF paused THEN "EnforcedPause"
                      ELSE IF a = 0 THEN "InvalidAmount"
                      ELSE "AccountNotActive"
            /\ \A g \in GoalInputs : UpdateGoalResult(u, g) = "AccountNotActive"
            /\ UpdateTrustModeResult(u) = "AccountNotActive"
            /\ \A c \in SaveCallers, a \in SaveAmounts :
                  AutoSaveResult(c, u, a, TRUE) =
                      IF paused THEN "EnforcedPause" ELSE "AccountNotActive")
    /\ [][\/ UNCHANGED accounts
          \/ \A u \in Users :
                /\ accounts[u].isActive => accounts'[u].isActive
                /\ (~accounts[u].isActive /\ accounts'[u] # accounts[u]) =>
                      \E g \in GoalInputs, b \in BufferInputs, m \in TrustModes :
                          /\ CreateAccountResult(u, g) = "OK"
                          /\ accounts'[u] = NewAccount(g, b, m)]_vars

\* C27 witness: on an unpaused ledger bob's account is active and holds funds
\* while alice, who is bound as the executor, has never created hers.
C27_Witness ==
    /\ ~paused
    /\ ~accounts["alice"].isActive
    /\ accounts["bob"].isActive
    /\ accounts["bob"].currentBalance > 0
    /\ x402Executor = "alice"

\* C28: updateGoal changes only the caller's own weeklyGoal and updateTrustMode
\* only the caller's own trustMode (neither takes an identity: the account is
\* the caller's); both fail NotActive on an account that is not active,
\* updateGoal fails InvalidGoal on an active account when newGoal <= 0, and a
\* failing call changes nothing; neither touches a balance, a total,
\* totalValueLocked or lastSaveTimestamp.
C28_SettingsUpdates ==
    /\ [](\A c \in Users :
            /\ UpdateTrustModeResult(c) =
                  IF accounts[c].isActive THEN "OK" ELSE "AccountNotActive"
            /\ \A g \in SettingGoals :
                  UpdateGoalResult(c, g) =
                      IF ~accounts[c].isActive THEN "AccountNotActive"
                      ELSE IF g <= 0 THEN "GoalNotPositive"
                      ELSE "OK")
    /\ [][\/ UNCHANGED accounts
          \/ /\ \A c \in Users, g \in SettingGoals :
                   UpdateGoal(c, g) =>
                       /\ UpdateGoalResult(c, g) = "OK"
                       /\ accounts'[c] = [accounts[c] EXCEPT !.weeklyGoal = g]
                       /\ FundsKept(c)
                       /\ accounts'[c].trustMode = accounts[c].trustMode
                       /\ OthersKept(c)
                       /\ totalValueLocked' = totalValueLocked
             /\ \A c \in Users, m \in TrustModes :
                   UpdateTrustMode(c, m) =>
                       /\ UpdateTrustModeResult(c) = "OK"
                       /\ accounts'[c] = [accounts[c] EXCEPT !.trustMode = m]
                       /\ FundsKept(c)
                       /\ accounts'[c].weeklyGoal = accounts[c].weeklyGoal
                       /\ OthersKept(c)
                       /\ totalValueLocked' = totalValueLocked]_vars

\* C28 witness: alice, created with a goal of 100.00, has saved 1.00 by
\* autoSave and now has a goal of 25.00, while bob has no account.
C28_Witness ==
    /\ accounts["alice"].weeklyGoal = 25 * MIN_DEPOSIT
    /\ accounts["alice"].currentBalance = MIN_DEPOSIT
    /\ accounts["alice"].lastSaveTimestamp > 0
    /\ totalValueLocked = MIN_DEPOSIT
    /\ ~accounts["bob"].isActive

\* C29: canAutoSave(identity) is true exactly when the account is active and
\* now >= lastSaveTimestamp + MIN_SAVE_INTERVAL; on an unpaused ledger an
\* autoSave with an in-bounds amount from the caller the trust mode admits
\* passes the NotActive and rate-limit checks, and so goes through when the
\* transfer does, if and only if canAutoSave(identity) is true at that time;
\* when it is false the autoSave fails with NotActive or RateLimitNotMet.
C29_CanAutoSave ==
    \A u \in Users :
        /\ canAutoSave(u) =
              (/\ accounts[u].isActive
               /\ now >= accounts[u].lastSaveTimestamp + MIN_SAVE_INTERVAL)
        /\ ~paused =>
              \A c \in SaveCallers, a \in SaveAmounts :
                  (InBounds(a) /\ Admitted(c, u)) =>
                      /\ canAutoSave(u) <=> AutoSaveResult(c, u, a, TRUE) = "OK"
                      /\ canAutoSave(u) <=>
                            AutoSaveCheck(c, u, a) \notin
                                {"AccountNotActive", "SaveIntervalNotMet"}
                      /\ ~canAutoSave(u) =>
                            AutoSaveResult(c, u, a, TRUE) =
                                IF accounts[u].isActive
                                THEN "SaveIntervalNotMet"
                                ELSE "AccountNotActive"

\* C29 witness: on an unpaused ledger alice has saved once, exactly one
\* interval ago, and canAutoSave answers true for her again.
C29_Witness ==
    /\ ~paused
    /\ Len(saves["alice"]) = 1
    /\ now = accounts["alice"].lastSaveTimestamp + MIN_SAVE_INTERVAL
    /\ canAutoSave("alice")

\* C30: when a strategy is bound to the ledger, a successful autoSave routes
\* the saved funds into it: the identity's share units in the strategy
\* increase.
C30_SaveRouted ==
    [][\A u \in Users :
          (yieldStrategy # ZeroAddress /\ Len(saves'[u]) > Len(saves[u])) =>
              s_userLiquidityTokens'[u] > s_userLiquidityTokens[u]]_vars

\* C31: a successful deposit(user, amount) by the vault has amount > 0, adds
\* exactly the LP tokens addLiquidity returned for that call to the user's
\* s_userLiquidityTokens and to s_totalLiquidityTokens, returns that number and
\* leaves every other user's tokens as they were; a deposit of 0 by the vault
\* fails ZeroAmount whatever the token and the router would have done, that
\* is before any funds are pulled or any pool call is made.
C31_StrategyDeposit ==
    /\ [](\A c \in StrategyCallers, ext \in DepositExternals :
            CheckVault(c) => StrategyDepositResult(c, 0, ext) = "ZeroAmount")
    /\ [][\/ UNCHANGED <<s_userLiquidityTokens, s_totalLiquidityTokens, returned>>
          \/ \A c \in {s_savingsVault}, u \in Users, a \in StrategyAmounts,
                ext \in DepositExternals :
                StrategyDeposit(c, u, a, ext) =>
                    /\ a > 0
                    /\ StrategyDepositResult(c, a, ext) = "OK"
                    /\ s_userLiquidityTokens'[u] =
                          s_userLiquidityTokens[u] + ext.liquidity
                    /\ s_totalLiquidityTokens' =
                          s_totalLiquidityTokens + ext.liquidity
                    /\ returned' = ext.liquidity
                    /\ \A v \in Users \ {u} :
                          s_userLiquidityTokens'[v] = s_userLiquidityTokens[v]]_vars

\* C31 witness: bob holds 1 LP token from an earlier deposit and a deposit
\* for alice has just returned the 2 LP tokens she now holds.
C31_Witness ==
    /\ s_userLiquidityTokens["bob"] = 1
    /\ s_userLiquidityTokens["alice"] = 2
    /\ s_totalLiquidityTokens = 3
    /\ returned = 2
    /\ minted = 3

\* m is floor(amount * (10000 - s_slippageTolerance) / 10000)
IsToleratedFloor(m, amount) ==
    /\ m * 10000 <= amount * (10000 - s_slippageTolerance)
    /\ amount * (10000 - s_slippageTolerance) < (m + 1) * 10000

\* amounts the strategy hands to the router: what it is given, its halves and
\* what the pool pays out
RouterAmounts ==
    StrategyAmounts \cup {HalfAmount(a) : a \in StrategyAmounts}
        \cup {x \in SwapInputs : x >= 0} \cup {0, 2}

\* C32: with the tolerance in force, every swap of deposit and withdraw is
\* issued with minimum output floor(amountIn * (10000 - tolerance) / 10000),
\* so that it reverts exactly when the pool pays less; addLiquidity is issued
\* with minimum amounts computed the same way from each of the two amounts
\* offered; removeLiquidity is issued with both minimum amounts 0.
C32_MinimumOutputs ==
    /\ \A a \in RouterAmounts :
          /\ SwapCall(a).amountIn = a
          /\ IsToleratedFloor(SwapCall(a).amountOutMin, a)
          /\ \A out \in RouterAmounts :
                SwapReverts(a, out) <=> ~IsToleratedFloor(out, a) /\
                    out * 10000 < a * (10000 - s_slippageTolerance)
          /\ RemoveLiquidityCall(a).amountAMin = 0
          /\ RemoveLiquidityCall(a).amountBMin = 0
          /\ \A b \in RouterAmounts :
                /\ AddLiquidityCall(a, b).amountADesired = a
                /\ AddLiquidityCall(a, b).amountBDesired = b
                /\ IsToleratedFloor(AddLiquidityCall(a, b).amountAMin, a)
                /\ IsToleratedFloor(AddLiquidityCall(a, b).amountBMin, b)
    /\ \A a \in StrategyAmounts, ext \in DepositExternals :
          (a > 0 /\ s_savingsVault # ZeroAddress /\ ext.transfer
             /\ ext.swap >= 0 /\ ext.liquidity >= 0) =>
              (StrategyDepositResult(s_savingsVault, a, ext) = "RouterReverted"
                  <=> ext.swap * 10000 <
                          HalfAmount(a) * (10000 - s_slippageTolerance)
                      /\ ~IsToleratedFloor(ext.swap, HalfAmount(a)))

\* C32 witness: LP tokens have been minted and the tolerance stands at its
\* ceiling of 500, not the 50 of deployment.
C32_Witness ==
    /\ s_slippageTolerance = 500
    /\ s_totalLiquidityTokens > 0
    /\ returned > 0
    /\ s_savingsVault = Vault

\* q is floor(reserve * shares / supply)
IsShareOfReserve(q, reserve, shares, supply) ==
    q * supply <= reserve * shares /\ reserve * shares < (q + 1) * supply

\* C33: getUserValue answers 0 for a user without LP tokens whatever the pool
\* would answer, a pool that cannot be queried included; for a user with LP
\* tokens and a pool with a positive total supply it answers
\* floor(usdcReserve * tokens / totalSupply) +
\* floor(usdtReserve * tokens / totalSupply), the USDC reserve being reserve0
\* when token0 is USDC and reserve1 otherwise; calculateYield answers
\* max(0, getUserValue - initialDeposit); both are functions of the user's LP
\* tokens and the pool's answers alone.
C33_UserValue ==
    \A u \in Users, pool \in Pools :
        /\ s_userLiquidityTokens[u] = 0 =>
              /\ GetUserValueResult(u, pool) = "OK"
              /\ getUserValue(u, pool) = 0
              /\ \A d \in InitialDeposits : calculateYield(u, d, pool) = 0
        /\ (s_userLiquidityTokens[u] > 0 /\ pool.totalSupply > 0) =>
              LET primary == IF pool.token0 = "USDC" THEN pool.reserve0
                             ELSE pool.reserve1
                  secondary == IF pool.token0 = "USDC" THEN pool.reserve1
                               ELSE pool.reserve0
                  value == getUserValue(u, pool)
              IN  /\ GetUserValueResult(u, pool) = "OK"
                  /\ \E x \in 0..value :
                        /\ IsShareOfReserve(x, primary, s_userLiquidityTokens[u],
                                            pool.totalSupply)
                        /\ IsShareOfReserve(value - x, secondary,
                                            s_userLiquidityTokens[u],
                                            pool.totalSupply)
                  /\ \A d \in InitialDeposits :
                        LET yield == calculateYield(u, d, pool)
                        IN  /\ yield >= 0
                            /\ yield >= value - d
                            /\ yield = 0 \/ yield = value - d

\* C33 witness: alice holds 2 LP tokens, worth 4 + 666 against a pool of
\* reserves 7 and 1000 and total supply 3, and bob holds none.
C33_Witness ==
    /\ s_userLiquidityTokens["alice"] = 2
    /\ s_userLiquidityTokens["bob"] = 0
    /\ getUserValue("alice", [reserve0 |-> 7, reserve1 |-> 1000,
                              totalSupply |-> 3, token0 |-> "USDT"]) = 670
    /\ calculateYield("alice", 2, [reserve0 |-> 7, reserve1 |-> 1000,
                                   totalSupply |-> 3, token0 |-> "USDT"]) = 668

\* decide has answered for a snapshot that passes the three pre-checks and
\* holds at least minSaveAmount above its buffer
PastShortCircuits ==
    /\ decision.outcome # "none"
    /\ state.isActive
    /\ state.trustMode = "AUTO"
    /\ state.canAutoSave
    /\ (IF state.walletBalance > state.safetyBuffer
        THEN state.walletBalance - state.safetyBuffer ELSE 0)
           >= context.minSaveAmount

\* m is the smaller of floor(available * percent / 100) and goal
IsCappedShare(m, available, percent, goal) ==
    /\ m <= goal
    /\ 100 * m <= percent * available
    /\ m = goal \/ percent * available < 100 * (m + 1)

\* the decision proposes optimal when it reaches minSaveAmount and nothing
\* otherwise
Proposes(optimal) ==
    /\ decision.outcome = "returned"
    /\ decision.shouldSave = (optimal >= context.minSaveAmount)
    /\ decision.amount = (IF optimal >= context.minSaveAmount THEN optimal ELSE 0)

\* C34: for every snapshot that passes the pre-checks with availableFunds at
\* least minSaveAmount, the CONSERVATIVE optimalAmount is 0 when walletBalance
\* is below twice the safetyBuffer and min(floor(availableFunds * 25 / 100),
\* weeklyGoal) otherwise, a walletBalance of exactly twice the buffer saving;
\* the AGGRESSIVE optimalAmount is min(floor(availableFunds * 80 / 100),
\* weeklyGoal); decide proposes that amount.
C34_ProfileAmounts ==
    PastShortCircuits =>
        LET available == state.walletBalance - state.safetyBuffer
            optimal == calculateOptimalAmount(state, calculateAvailableFunds(state))
        IN  /\ (context.strategy = "CONSERVATIVE"
                  /\ state.walletBalance < 2 * state.safetyBuffer) =>
                  optimal = 0 /\ Proposes(0)
            /\ (context.strategy = "CONSERVATIVE"
                  /\ state.walletBalance >= 2 * state.safetyBuffer) =>
                  /\ IsCappedShare(optimal, available, 25, state.weeklyGoal)
                  /\ Proposes(optimal)
            /\ context.strategy = "AGGRESSIVE" =>
                  /\ IsCappedShare(optimal, IF available > 0 THEN available ELSE 0,
                                   80, state.weeklyGoal)
                  /\ Proposes(optimal)

\* C34 witness: under the CONSERVATIVE strategy decide proposes 25.00, a
\* quarter of the 100.00 that a wallet of exactly twice its buffer of 100.00
\* holds above it.
C34_Witness ==
    /\ PastShortCircuits
    /\ context.strategy = "CONSERVATIVE"
    /\ state.walletBalance = 200 * OneUsdc
    /\ state.safetyBuffer = 100 * OneUsdc
    /\ state.weeklyGoal = 25 * OneUsdc
    /\ decision.shouldSave
    /\ decision.amount = 25 * OneUsdc

\* C35: when decide returns past its short circuits, urgency is high exactly
\* when timeSinceLastSave is at least 168 hours and optimalAmount is at least
\* floor(weeklyGoal / 2); otherwise it is medium exactly when the hours are at
\* least 72, a week without a save and an amount below half the goal included;
\* otherwise it is low.
C35_Urgency ==
    (PastShortCircuits /\ decision.outcome = "returned") =>
        LET optimal == calculateOptimalAmount(state, calculateAvailableFunds(state))
            halfGoalMet == state.weeklyGoal <= 2 * optimal + 1
            week == state.timeSinceLastSave >= 168
            threeDays == state.timeSinceLastSave >= 72
        IN  /\ decision.urgency = "high" <=> (week /\ halfGoalMet)
            /\ decision.urgency = "medium" <=> (threeDays /\ ~(week /\ halfGoalMet))
            /\ decision.urgency = "low" <=> ~threeDays

\* C35 witness: after a week without a save decide proposes 5.00 toward a goal
\* of 25.00, less than half of it, with urgency medium.
C35_Witness ==
    /\ PastShortCircuits
    /\ decision.outcome = "returned"
    /\ state.timeSinceLastSave = 168
    /\ state.weeklyGoal = 25 * OneUsdc
    /\ decision.amount = 5 * OneUsdc
    /\ decision.urgency = "medium"

\* C36: when decide returns past its short circuits, confidence in tenths is
\* 5, plus 2 if walletBalance is above twice the safetyBuffer, plus 1 more if
\* it is above three times the buffer, plus 1 if optimalAmount / availableFunds
\* lies strictly between 0.1 and 0.7, plus 1 if optimalAmount is at most
\* weeklyGoal, capped at 10; every strategy caps optimalAmount at weeklyGoal,
\* so the last bonus is always granted and confidence lies between 6 and 10
\* tenths.
C36_Confidence ==
    (PastShortCircuits /\ decision.outcome = "returned") =>
        LET available == IF state.walletBalance > state.safetyBuffer
                         THEN state.walletBalance - state.safetyBuffer ELSE 0
            optimal == calculateOptimalAmount(state, calculateAvailableFunds(state))
            buffer == IF state.walletBalance > 2 * state.safetyBuffer
                      THEN (IF state.walletBalance > 3 * state.safetyBuffer
                            THEN 3 ELSE 2)
                      ELSE 0
            ratio == IF available > 0 /\ available < 10 * optimal
                        /\ 10 * optimal < 7 * available THEN 1 ELSE 0
        IN  /\ optimal <= state.weeklyGoal
            /\ decision.confidence = 5 + buffer + ratio + 1
            /\ decision.confidence >= 6
            /\ decision.confidence <= 10

\* C36 witness: decide proposes 7.00, exactly 0.7 of the 10.00 a wallet of
\* 110.00 holds above its buffer of 100.00, with a confidence of six tenths:
\* neither the buffer bonuses nor the ratio bonus are granted.
C36_Witness ==
    /\ PastShortCircuits
    /\ decision.outcome = "returned"
    /\ state.walletBalance = 110 * OneUsdc
    /\ state.safetyBuffer = 100 * OneUsdc
    /\ decision.amount = 7 * OneUsdc
    /\ decision.confidence = 6

\* the snapshot the engine decided on is the ledger's state of the served
\* identity as it is now
SnapshotCurrent ==
    /\ state.isActive = getAccount(Saver).isActive
    /\ state.trustMode = getAccount(Saver).trustMode
    /\ state.weeklyGoal = getAccount(Saver).weeklyGoal
    /\ state.safetyBuffer = getAccount(Saver).safetyBuffer
    /\ state.lastSaveTimestamp = getAccount(Saver).lastSaveTimestamp
    /\ state.canAutoSave = canAutoSave(Saver)

\* C37: whenever decide returns shouldSave for a snapshot built from the
\* ledger's current state of an AUTO account, an autoSave of the proposed
\* amount submitted by the executor at that time passes all of the ledger's
\* checks; in particular the proposed amount is at most MAX_SAVE_AMOUNT. It
\* is stated for the configured executor and a ledger that is not paused.
C37_DecisionExecutable ==
    (/\ decision.outcome = "returned"
     /\ decision.shouldSave
     /\ SnapshotCurrent
     /\ getAccount(Saver).trustMode = "AUTO"
     /\ x402Executor = AgentExecutor
     /\ ~paused) =>
        /\ decision.amount <= MAX_SAVE_AMOUNT
        /\ AutoSaveCheck(AgentExecutor, Saver, decision.amount) = "OK"

\* C38: a deposit into the strategy puts the whole amount to work: for every
\* amount > 0, even or odd, the USDC it swaps into USDT plus the USDC it offers
\* to addLiquidity is the amount it pulled from the vault.
C38_WholeAmountAtWork ==
    [][\/ UNCHANGED <<s_userLiquidityTokens, s_totalLiquidityTokens, returned>>
       \/ \A c \in {s_savingsVault}, u \in Users, a \in StrategyAmounts,
             ext \in DepositExternals :
             (StrategyDeposit(c, u, a, ext)
                /\ StrategyDepositResult(c, a, ext) = "OK") =>
                 DepositSwapCall(a).amountIn
                     + DepositLiquidityCall(a, ext.swap).amountADesired = a]_vars

\* C39: every operation that increases an account's currentBalance increases
\* it by at least MIN_DEPOSIT: neither deposit nor autoSave credits an amount
\* a with 0 < a < MIN_DEPOSIT.
C39_NoDustCredit ==
    [][\/ UNCHANGED accounts
       \/ \A u \in Users :
             accounts'[u].currentBalance > accounts[u].currentBalance =>
                 accounts'[u].currentBalance - accounts[u].currentBalance
                     >= MIN_DEPOSIT]_vars

====
